---- MODULE Spec2Model ----
(***************************************************************************)
(* State-machine model of the project orchestrator's workflow core:        *)
(*   src/src/services/workflow_orchestrator.py  (phase state machine)      *)
(*   src/src/services/approval_gate.py          (approval gates)           *)
(*   src/src/services/scar_executor.py          (command execution)        *)
(*   src/src/scar/client.py                     (remote runtime client)    *)
(* Rows of the database tables are records kept in creation order; a row's *)
(* id is its index.  Texts are sequences of string tokens, so that         *)
(* formatting (f-strings, joins) is concatenation and "contains" is a      *)
(* contiguous-subsequence test.  Optional values are <<>> (None) or <<x>>. *)
(***************************************************************************)
EXTENDS Integers, Sequences, FiniteSets, TLC

\* ------------------------------------------------------------------ bounds
\* Cap on the messages the remote runtime emits into one conversation.
MaxRuntimeMessages == 2
\* The configured timeout settings.scar_timeout_seconds, scaled down.
ScarTimeoutSeconds == 6
\* How many rows the directly issued executions may create, and how many
\* messages the runtime may emit to them.
MaxExecutions == 1
MaxExecMessages == 3
\* How many seconds a polling call may lose beyond its sleeps.
MaxDelay == 1
\* How many rows the conversation tables may hold when a call starts, and how
\* far the idle time between calls may move the clock.
MaxTopicRows == 3
MaxTopicClock == 3700
\* How many rows requests that run at the same time may write.
MaxRaceWrites == 3
\* How many phases there may be, with the calls running, when one of several
\* workflow calls that run at the same time starts.
MaxRacePhases == 3

\* -------------------------------------------------------- program constants
PollInterval == 2
StableThreshold == 2
TopicGapSeconds == 3600
HistoryLimit == 50

None == <<>>
Some(x) == <<x>>
IsNone(o) == o = <<>>
Get(o) == o[1]

\* Python truthiness of an Optional[str]: None and "" are falsy.
Truthy(o) == (~IsNone(o)) /\ Get(o) /= <<>>

\* A text contains another when the latter is a contiguous run of its tokens.
Contains(text, sub) ==
    \E i \in 0..(Len(text) - Len(sub)) : SubSeq(text, i + 1, i + Len(sub)) = sub

\* str(n) for the small numbers the model formats into texts.
NumStr(n) ==
    IF n \in 0..19
    THEN <<"0", "1", "2", "3", "4", "5", "6", "7", "8", "9", "10", "11", "12",
           "13", "14", "15", "16", "17", "18", "19">>[n + 1]
    ELSE "many"

RECURSIVE JoinWith(_, _)
\* sep.join(texts)
JoinWith(sep, texts) ==
    IF texts = <<>> THEN <<>>
    ELSE IF Len(texts) = 1 THEN texts[1]
    ELSE texts[1] \o sep \o JoinWith(sep, Tail(texts))

\* ------------------------------------------------------------- the pipeline
WORKFLOW_PHASES ==
    << [number |-> 1, name |-> "Vision Document Review",
        description |-> "Review and approve the generated vision document",
        scar_command |-> None, requires_approval |-> TRUE,
        approval_gate_type |-> Some("VISION_DOC")],
       [number |-> 2, name |-> "Prime Context",
        description |-> "Load complete project context into SCAR",
        scar_command |-> Some("prime"), requires_approval |-> FALSE,
        approval_gate_type |-> None],
       [number |-> 3, name |-> "Plan Feature",
        description |-> "Create detailed implementation plan",
        scar_command |-> Some("plan-feature-github"), requires_approval |-> TRUE,
        approval_gate_type |-> Some("PHASE_START")],
       [number |-> 4, name |-> "Execute Implementation",
        description |-> "Implement the planned feature",
        scar_command |-> Some("execute-github"), requires_approval |-> FALSE,
        approval_gate_type |-> None],
       [number |-> 5, name |-> "Validate & Test",
        description |-> "Run tests and validate implementation",
        scar_command |-> Some("validate"), requires_approval |-> TRUE,
        approval_gate_type |-> Some("PHASE_COMPLETE")] >>

ScarCommand == {"prime", "plan-feature-github", "execute-github", "validate"}

\* _command_to_type: the ScarCommand -> CommandType mapping.
CommandToType(command) ==
    CASE command = "prime" -> "PRIME"
      [] command = "plan-feature-github" -> "PLAN_FEATURE_GITHUB"
      [] command = "execute-github" -> "EXECUTE_GITHUB"
      [] command = "validate" -> "VALIDATE"

\* settings.scar_base_url and settings.scar_conversation_prefix
ScarBaseUrl == "http://localhost:3000"
ScarConversationPrefix == "pm-project-"

\* --------------------------------------------------------------- the inputs
Projects == {"p1"}
UnknownProject == "p0"
ProjectIds == Projects \cup {UnknownProject}
\* "https://github.com/test/repo", as its "/"-separated segments
RepoUrl == <<"https:", "", "github.com", "test", "repo">>
Notes == {None, Some(<<"Looks great!">>)}
RuntimeMessages == {"out"}

VARIABLES
    projects,     \* table projects: id -> row
    phases,       \* table workflow_phases, in creation order
    gates,        \* table approval_gates, in creation order
    executions,   \* table scar_executions, in creation order
    scarLog,      \* the remote runtime's message log, per conversation id
    pipeline,     \* the module's list of PhaseConfig entries, which no call writes
    topics,       \* table conversation_topics, in commit order
    conversation, \* table conversation_messages, in commit order
    clock,        \* the wall clock, in seconds
    call          \* per caller: position in the running call, its locals
                  \* (among them its clock, in seconds since the call started,
                  \* the POST requests it has issued and the message counts
                  \* its polls have seen), and its outcome

vars == <<projects, phases, gates, executions, scarLog, pipeline,
          topics, conversation, clock, call>>

\* The tables of the workflow, the remote log and the pipeline; the tables of
\* the conversation and the clock.
workVars == <<projects, phases, gates, executions, scarLog, pipeline>>
topicVars == <<topics, conversation, clock>>

Callers == DOMAIN call

\* ------------------------------------------------------------------ queries
\* select(Project).where(Project.id == project_id) ... scalar_one_or_none()
ProjectExists(project_id) == project_id \in DOMAIN projects

PhaseIdsOf(project_id) == {i \in 1..Len(phases) : phases[i].project_id = project_id}

\* select(WorkflowPhase).where(project_id).order_by(phase_number.desc()).limit(1):
\* None, or the id of a row with the highest phase number.
CurrentPhase(project_id) ==
    IF PhaseIdsOf(project_id) = {} THEN None
    ELSE Some(CHOOSE i \in PhaseIdsOf(project_id) :
                \A j \in PhaseIdsOf(project_id) :
                    phases[j].phase_number <= phases[i].phase_number)

\* A slip: the current phase number is used as it is.
NextPhaseNumberNoIncrement(project_id) ==
    IF IsNone(CurrentPhase(project_id)) THEN 1
    ELSE phases[Get(CurrentPhase(project_id))].phase_number

\* A slip: a current phase that failed gets its number again.
NextPhaseNumberRetryFailed(project_id) ==
    IF IsNone(CurrentPhase(project_id)) THEN 1
    ELSE IF phases[Get(CurrentPhase(project_id))].status = "FAILED"
    THEN phases[Get(CurrentPhase(project_id))].phase_number
    ELSE phases[Get(CurrentPhase(project_id))].phase_number + 1

\* (current_phase.phase_number + 1) if current_phase else 1
NextPhaseNumber(project_id) ==
    IF IsNone(CurrentPhase(project_id)) THEN 1
    ELSE phases[Get(CurrentPhase(project_id))].phase_number + 1

\* A slip: the last pipeline entry is never found.
NextPhaseConfigShort(n) ==
    IF n \in 1..(Len(pipeline) - 1) THEN Some(n) ELSE None

\* next((p for p in WORKFLOW_PHASES if p.number == next_phase_number), None),
\* as None or the index of the first matching entry.
NextPhaseConfigClamped(n) ==
    IF n > Len(pipeline) THEN Some(Len(pipeline))
    ELSE IF n \in 1..Len(pipeline) THEN Some(n) ELSE None

NextPhaseConfig(n) ==
    IF \E k \in 1..Len(pipeline) : pipeline[k].number = n
    THEN Some(CHOOSE k \in 1..Len(pipeline) :
                /\ pipeline[k].number = n
                /\ \A j \in 1..(k - 1) : pipeline[j].number /= n)
    ELSE None

\* _build_conversation_id: prefix + project id
BuildConversationId(project_id) == <<ScarConversationPrefix, project_id>>

Conversations == {BuildConversationId(p) : p \in ProjectIds}

\* ------------------------------------------------------------ initial state
Snapshot ==
    [projects |-> projects, phases |-> phases, gates |-> gates,
     executions |-> executions]

IdleCall ==
    [pc |-> "idle", op |-> "none", nested |-> FALSE,
     project_id |-> UnknownProject, gate_id |-> 0, approved |-> FALSE, notes |-> None,
     command |-> None, args |-> <<>>, phase_id |-> None, exec_id |-> None,
     cfg |-> None, conversation_id |-> None,
     now |-> 0, sends |-> 0, start_time |-> 0, poll_start |-> 0,
     previous_message_count |-> 0, stable_count |-> 0, messages |-> <<>>,
     polled |-> <<>>,
     role |-> "", content |-> <<>>, title |-> None, summary |-> None,
     topic_id |-> None, timestamp |-> None, should |-> None, time_gap |-> None,
     active |-> None, ended |-> None, new_topic |-> None,
     tpre |-> [topics |-> <<>>, conversation |-> <<>>],
     exc |-> None, result |-> None, ret |-> None, gate |-> None,
     pre |-> [projects |-> <<>>, phases |-> <<>>, gates |-> <<>>,
              executions |-> <<>>]]

InitTables ==
    /\ \E url \in {None, Some(RepoUrl)} :
         projects = [p \in Projects |->
                       [name |-> "Test Project", status |-> "BRAINSTORMING",
                        github_repo_url |-> url]]
    /\ phases = <<>>
    /\ gates = <<>>
    /\ executions = <<>>
    /\ scarLog = [cv \in Conversations |-> <<>>]

\* No topic and no message yet; the clock at its origin.
InitConversation ==
    /\ topics = <<>>
    /\ conversation = <<>>
    /\ clock = 0

Init ==
    /\ InitTables
    /\ pipeline = WORKFLOW_PHASES
    /\ InitConversation
    /\ call = [c \in {1} |-> IdleCall]

\* ------------------------------------------------------- calls and outcomes
AllIdle == \A c \in Callers : call[c].pc = "idle"

\* The locals of a call that begins: reset, with the state it starts from.
Begun(op, first, project_id, gate_id, approved, notes) ==
    [IdleCall EXCEPT !.pc = first, !.op = op,
                     !.project_id = project_id, !.gate_id = gate_id,
                     !.approved = approved, !.notes = notes, !.pre = Snapshot]

\* A call that ended keeps its inputs, the number of POST requests it issued,
\* the gate object it loaded, the CommandResult it was handed and the state it
\* started from; its other locals are gone.
Ended(rec) ==
    [IdleCall EXCEPT !.pc = "done", !.op = rec.op, !.nested = rec.nested,
                     !.project_id = rec.project_id, !.gate_id = rec.gate_id,
                     !.approved = rec.approved, !.notes = rec.notes,
                     !.sends = rec.sends, !.gate = rec.gate,
                     !.result = rec.result, !.pre = rec.pre,
                     !.role = rec.role, !.content = rec.content,
                     !.topic_id = rec.topic_id, !.should = rec.should,
                     !.time_gap = rec.time_gap, !.new_topic = rec.new_topic,
                     !.tpre = rec.tpre]

ApprovalGrantedPrefix == <<"Approval granted. Continuing workflow...", "\n">>

\* The record of a call that returned (success, message).  An advance run by
\* handle_approval_response returns through its caller, which prefixes the
\* message (workflow_orchestrator.py:334-335).
Returned(rec, success, message) ==
    [Ended(rec) EXCEPT !.ret =
        Some([kind |-> "return", type |-> "", success |-> success,
              message |-> IF rec.nested THEN ApprovalGrantedPrefix \o message
                          ELSE message])]

\* The record of a call that an exception left.
Raised(rec, type, text) ==
    [Ended(rec) EXCEPT !.ret =
        Some([kind |-> "raise", type |-> type, success |-> FALSE, message |-> text])]

\* ------------------------------------------------------- advance_workflow
\* get_workflow_state(session, project_id), line 201: raises when the project
\* is missing; its result is discarded by advance_workflow.
GetWorkflowState(rec) ==
    IF ~ProjectExists(rec.project_id)
    THEN Raised(rec, "ValueError", <<"Project ", rec.project_id, " not found">>)
    ELSE [rec EXCEPT !.pc = "adv_select"]

\* advance_workflow is called; it runs up to the end of get_workflow_state.
StartAdvance(c, project_id) ==
    /\ call[c].pc = "idle"
    /\ call' = [call EXCEPT ![c] =
                  GetWorkflowState(Begun("advance", "adv_state", project_id,
                                         0, FALSE, None))]
    /\ UNCHANGED <<projects, phases, gates, executions, scarLog>>

\* The advance_workflow that handle_approval_response runs starts the same way.
AdvState(c) ==
    /\ call[c].pc = "adv_state"
    /\ call' = [call EXCEPT ![c] = GetWorkflowState(call[c])]
    /\ UNCHANGED <<projects, phases, gates, executions, scarLog>>

\* Lines 203-218: re-select the project, read the current phase number.
AdvSelect(c) ==
    /\ call[c].pc = "adv_select"
    /\ call' = [call EXCEPT ![c] =
                  IF ~ProjectExists(call[c].project_id)
                  THEN Returned(call[c], FALSE, <<"Project not found">>)
                  ELSE [call[c] EXCEPT !.pc = "adv_create",
                                       !.cfg = NextPhaseConfig(
                                                 NextPhaseNumber(call[c].project_id))]]
    /\ UNCHANGED <<projects, phases, gates, executions, scarLog>>

\* The WorkflowPhase row of lines 230-239.
NewPhase(project_id, config) ==
    [project_id |-> project_id, phase_number |-> config.number, name |-> config.name,
     description |-> config.description, scar_command |-> config.scar_command,
     status |-> "PENDING", started_at |-> None, completed_at |-> None,
     error_message |-> None]

\* Lines 223-242: no configuration completes the project; otherwise the phase
\* row is inserted with status PENDING.
AdvCreate(c) ==
    /\ call[c].pc = "adv_create"
    /\ IF IsNone(call[c].cfg)
       THEN /\ projects' = [projects EXCEPT ![call[c].project_id].status = "COMPLETED"]
            /\ call' = [call EXCEPT ![c] =
                          Returned(call[c], TRUE, <<"Workflow completed successfully!">>)]
            /\ UNCHANGED phases
       ELSE /\ phases' = Append(phases, NewPhase(call[c].project_id,
                                                 pipeline[Get(call[c].cfg)]))
            /\ call' = [call EXCEPT ![c] =
                          [call[c] EXCEPT !.pc = "adv_route",
                                          !.phase_id = Some(Len(phases) + 1)]]
            /\ UNCHANGED projects
    /\ UNCHANGED <<gates, executions, scarLog>>

\* ---------------------------------------------------------- approval gates
\* The ApprovalGate row of approval_gate.py:52-64 (context payload: the
\* request's title and summary).
NewGate(project_id, gate_type, title, summary) ==
    [project_id |-> project_id, gate_type |-> gate_type, question |-> title,
     status |-> "PENDING", summary |-> summary]

\* approved_at and approver_notes are no columns of approval_gates
\* (models.py:219-228): approve_gate and reject_gate set them on the gate
\* object loaded in the caller's session, where they live as long as it does.
\* A gate object as a session loads it: the row, and neither attribute.
LoadedGate(gate_id) ==
    [id |-> gate_id, status |-> gates[gate_id].status,
     approved_at |-> None, approver_notes |-> None]

\* A slip: the status is compared with the wrong value.
GateResolvableWhenApproved(gate) == gate.status = "APPROVED"

\* A slip: the status check is left out.
GateResolvableAlways(gate) == gate.status \in {"PENDING", "APPROVED", "REJECTED"}

\* "if gate.status != GateStatus.PENDING": resolution is legal only while Pending.
GateResolvable(gate) == gate.status = "PENDING"

\* A slip: the notes are not kept on the approved gate.
ApprovedGateWithoutNotes(gate, approver_notes) ==
    [gate EXCEPT !.status = "APPROVED", !.approved_at = Some("set")]

\* approve_gate lines 98-101: Approved, resolution time, notes when truthy.
ApprovedGate(gate, approver_notes) ==
    [gate EXCEPT !.status = "APPROVED", !.approved_at = Some("set"),
                 !.approver_notes = IF Truthy(approver_notes)
                                    THEN approver_notes ELSE @]

\* reject_gate lines 134-136: Rejected, resolution time, the reason.
RejectedGate(gate, reason) ==
    [gate EXCEPT !.status = "REJECTED", !.approved_at = Some("set"),
                 !.approver_notes = Some(reason)]

\* A slip: the caller's notes are dropped.
RejectReasonDefault(notes) == <<"User rejected">>

\* "notes or 'User rejected'" (workflow_orchestrator.py:337)
RejectReason(notes) == IF Truthy(notes) THEN Get(notes) ELSE <<"User rejected">>

\* A slip: the approval is asked only for a phase without a command.
RequiresApprovalWithoutCommand(config) ==
    config.requires_approval /\ IsNone(config.scar_command)

\* "if next_phase_config.requires_approval" (line 244), looked at before the
\* command of the phase.
RequiresApproval(config) == config.requires_approval

\* Lines 244-295 up to the first commit of each branch: a phase that requires
\* approval gets its gate; a phase with a command goes IN_PROGRESS; any other
\* phase returns at once.
AdvRoute(c) ==
    LET config == pipeline[Get(call[c].cfg)]
        pid == Get(call[c].phase_id)
    IN  /\ call[c].pc = "adv_route"
        /\ IF RequiresApproval(config)
           THEN /\ gates' = Append(gates,
                                   NewGate(call[c].project_id,
                                           Get(config.approval_gate_type),
                                           <<"Approve: ", config.name>>,
                                           config.description))
                /\ call' = [call EXCEPT ![c] = [call[c] EXCEPT !.pc = "adv_block"]]
                /\ UNCHANGED phases
           ELSE IF ~IsNone(config.scar_command)
           THEN /\ phases' = [phases EXCEPT ![pid].status = "IN_PROGRESS",
                                            ![pid].started_at = Some("set")]
                /\ call' = [call EXCEPT ![c] =
                              [call[c] EXCEPT !.pc = "exec_begin",
                                              !.command = config.scar_command,
                                              !.args =
                                                IF Get(config.scar_command)
                                                     = "plan-feature-github"
                                                THEN <<projects[call[c].project_id].name>>
                                                ELSE <<>>]]
                /\ UNCHANGED gates
           ELSE /\ call' = [call EXCEPT ![c] =
                              Returned(call[c], TRUE, <<"Advanced to phase: ", config.name>>)]
                /\ UNCHANGED <<phases, gates>>
        /\ UNCHANGED <<projects, executions, scarLog>>

\* A slip: the phase is left as it was created.
BlockedPhaseForgotten(phase) == phase

\* workflow_phase.status = PhaseStatus.BLOCKED (line 256)
BlockedPhase(phase) == [phase EXCEPT !.status = "BLOCKED"]

\* Lines 256-259: the phase is set BLOCKED and advance returns.
AdvBlock(c) ==
    LET config == pipeline[Get(call[c].cfg)]
        pid == Get(call[c].phase_id)
    IN  /\ call[c].pc = "adv_block"
        /\ phases' = [phases EXCEPT ![pid] = BlockedPhase(@)]
        /\ call' = [call EXCEPT ![c] =
                      Returned(call[c], TRUE, <<"Created approval gate for: ", config.name>>)]
        /\ UNCHANGED <<projects, gates, executions, scarLog>>

\* Lines 282-293: the phase ends COMPLETED or FAILED as the execution reports.
PhaseAfterWithoutError(phase, result) ==
    IF result.success
    THEN [phase EXCEPT !.status = "COMPLETED", !.completed_at = Some("set")]
    ELSE [phase EXCEPT !.status = "FAILED"]

PhaseAfter(phase, result) ==
    IF result.success
    THEN [phase EXCEPT !.status = "COMPLETED", !.completed_at = Some("set")]
    ELSE [phase EXCEPT !.status = "FAILED", !.error_message = result.error]

\* A slip: the success message leaves the phase out.
AdvanceOutcomeUnnamed(config, result) ==
    IF result.success
    THEN [success |-> TRUE, message |-> <<"Completed phase: ", "\n">> \o result.output]
    ELSE [success |-> FALSE, message |-> <<"Phase failed: ">> \o Get(result.error)]

\* The (success, message) advance returns for an execution result.
AdvanceOutcome(config, result) ==
    IF result.success
    THEN [success |-> TRUE,
          message |-> <<"Completed phase: ", config.name, "\n">> \o result.output]
    ELSE [success |-> FALSE,
          message |-> <<"Phase failed: ">> \o Get(result.error)]

AdvResult(c) ==
    LET config == pipeline[Get(call[c].cfg)]
        pid == Get(call[c].phase_id)
        result == Get(call[c].result)
        out == AdvanceOutcome(config, result)
    IN  /\ call[c].pc = "adv_result"
        /\ phases' = [phases EXCEPT ![pid] = PhaseAfter(@, result)]
        /\ call' = [call EXCEPT ![c] = Returned(call[c], out.success, out.message)]
        /\ UNCHANGED <<projects, gates, executions, scarLog>>

\* ------------------------------------------------------ the SCAR client
RECURSIVE RStripSlash(_)
\* url.rstrip("/"): trailing empty segments are dropped.
RStripSlash(url) ==
    IF url /= <<>> /\ url[Len(url)] = ""
    THEN RStripSlash(SubSeq(url, 1, Len(url) - 1))
    ELSE url

\* repo_part.replace(".git", "")
StripGit(part) == IF part = "repo.git" THEN "repo" ELSE part

\* github_repo_url.rstrip("/").split("/")[-1].replace(".git", "")
RepoName(url) ==
    IF RStripSlash(url) = <<>> THEN ""
    ELSE StripGit(RStripSlash(url)[Len(RStripSlash(url))])

\* The "/repo <name>" message of _setup_workspace.
RepoMessage(url) == <<"/repo ", RepoName(url)>>

\* An argument with a space is quoted (client.py:146).
HasSpace(arg) == arg = "Test Project"
QuoteArg(arg) == IF HasSpace(arg) THEN <<"\"", arg, "\"">> ELSE <<arg>>

\* command_str of send_command (client.py:143-147).
CommandStr(command, args) ==
    <<"/command-invoke ", command>>
      \o (IF args /= <<>>
          THEN <<" ">> \o JoinWith(<<" ">>, [i \in 1..Len(args) |-> QuoteArg(args[i])])
          ELSE <<>>)

\* A slip: the echoes are kept.
BotMessagesUnfiltered(log) == log

\* get_messages keeps the messages with direction "sent" (client.py:193).
BotMessages(log) == SelectSeq(log, LAMBDA m : m.direction = "sent")

\* One poll of wait_for_completion (client.py:268-274).
PollUpdate(previous_message_count, stable_count, current_count) ==
    IF current_count > previous_message_count
    THEN [previous_message_count |-> current_count, stable_count |-> 0]
    ELSE [previous_message_count |-> previous_message_count,
          stable_count |-> stable_count + 1]

\* A slip: one unchanged poll is taken for completion.
QuiescentAfterOne(stable_count) == stable_count >= 1

\* "if stable_count >= 2" (client.py:277)
Quiescent(stable_count) == stable_count >= StableThreshold

\* Slips: the deadline itself is let pass; the deadline is not checked.
TimedOutStrict(elapsed, timeout) == elapsed > timeout
TimedOutNever(elapsed, timeout) == FALSE

\* "if elapsed >= timeout" (client.py:252)
TimedOut(elapsed, timeout) == elapsed >= timeout

\* f"{x:.1f}" of a whole number of seconds
Fmt1f(n) == <<NumStr(n), ".0">>

\* The TimeoutError text of client.py:253-256.
TimeoutText(elapsed, timeout, conversation_id) ==
    <<"SCAR command timed out after ">> \o Fmt1f(elapsed)
      \o <<"s (timeout: ", NumStr(timeout), "s, conversation: ">>
      \o conversation_id \o <<")">>

HttpOutcomes == {"ok", "ConnectError", "HTTPStatusError"}

\* str(e) of the httpx errors a request can end with.
HttpErrorText(outcome) ==
    IF outcome = "ConnectError" THEN <<"All connection attempts failed">>
    ELSE <<"Server error '500 Internal Server Error'">>

\* ------------------------------------------------- execute_scar_command
\* " ".join(args) if args else ""
ArgsStr(args) == JoinWith(<<" ">>, [i \in 1..Len(args) |-> <<args[i]>>])

\* error_msg of the three except clauses (scar_executor.py:163, 187, 211).
ErrorMsgGeneric(exc, duration) == <<"SCAR command failed: ">> \o exc.text

ErrorMsg(exc, duration) ==
    IF exc.type = "ConnectError"
    THEN <<"SCAR is not available. Ensure SCAR is running at ", ScarBaseUrl>>
    ELSE IF exc.type = "TimeoutError"
    THEN <<"SCAR command timed out after ">> \o Fmt1f(duration) \o <<"s: ">> \o exc.text
    ELSE <<"SCAR command failed: ">> \o exc.text

\* A slip: the row is inserted as Running.
NewExecutionRunning(project_id, phase_id, command, args) ==
    [project_id |-> project_id, phase_id |-> phase_id,
     command_type |-> CommandToType(command), command_args |-> ArgsStr(args),
     status |-> "RUNNING", output |-> None, error |-> None,
     started_at |-> Some("set"), completed_at |-> None]

\* The ScarCommandExecution row of scar_executor.py:85-92.
NewExecution(project_id, phase_id, command, args) ==
    [project_id |-> project_id, phase_id |-> phase_id,
     command_type |-> CommandToType(command), command_args |-> ArgsStr(args),
     status |-> "QUEUED", output |-> None, error |-> None,
     started_at |-> Some("set"), completed_at |-> None]

\* A slip: the repository URL is not looked at.
HasRepoUnchecked(project_id) == ProjectExists(project_id)

\* "if not project or not project.github_repo_url"
HasRepo(project_id) ==
    /\ ProjectExists(project_id)
    /\ ~IsNone(projects[project_id].github_repo_url)
    /\ Get(projects[project_id].github_repo_url) /= <<>>

\* Where a finished execution hands its CommandResult: to advance_workflow, or
\* to the caller of execute_scar_command.
Deliver(rec, result) ==
    IF rec.op = "execute"
    THEN [Ended(rec) EXCEPT !.result = Some(result),
                          !.ret = Some([kind |-> "return", type |-> "",
                                       success |-> result.success,
                                       message |-> IF result.success THEN result.output
                                                   ELSE Get(result.error)])]
    ELSE [rec EXCEPT !.pc = "adv_result", !.result = Some(result)]

\* Lines 69-95: the project check, then the row is inserted QUEUED.
ExecBegin(c) ==
    /\ call[c].pc = "exec_begin"
    /\ IF ~HasRepo(call[c].project_id)
       THEN /\ call' = [call EXCEPT ![c] =
                          Deliver(call[c], [success |-> FALSE, output |-> <<>>,
                                      error |-> Some(<<"Project not found or no GitHub repo configured">>),
                                      duration_seconds |-> 0])]
            /\ UNCHANGED executions
       ELSE /\ executions' = Append(executions,
                                    NewExecution(call[c].project_id, call[c].phase_id,
                                                 Get(call[c].command), call[c].args))
            /\ call' = [call EXCEPT ![c] =
                          [call[c] EXCEPT !.pc = "exec_running",
                                          !.exec_id = Some(Len(executions) + 1),
                                          !.start_time = call[c].now]]
    /\ UNCHANGED <<projects, phases, gates, scarLog>>

\* Lines 100-102: the row is set RUNNING.
ExecRunning(c) ==
    /\ call[c].pc = "exec_running"
    /\ executions' = [executions EXCEPT ![Get(call[c].exec_id)].status = "RUNNING"]
    /\ call' = [call EXCEPT ![c] =
                  [call[c] EXCEPT !.pc = "exec_workspace",
                                  !.conversation_id =
                                     Some(BuildConversationId(call[c].project_id))]]
    /\ UNCHANGED <<projects, phases, gates, scarLog>>

\* A slip: a request starts the conversation afresh.
PostClearing(c, message, outcome, next) ==
    LET cv == Get(call[c].conversation_id)
    IN  IF outcome = "ok"
        THEN /\ scarLog' = [scarLog EXCEPT ![cv] =
                              <<[message |-> message, direction |-> "received"]>>]
             /\ call' = [call EXCEPT ![c] = [next EXCEPT !.sends = @ + 1]]
        ELSE /\ call' = [call EXCEPT ![c] =
                              [call[c] EXCEPT !.pc = "exec_except",
                                              !.sends = @ + 1,
                                              !.exc = Some([type |-> outcome,
                                                            text |-> HttpErrorText(outcome)])]]
             /\ UNCHANGED scarLog

\* A slip: the status of the response is not looked at.
PostUnchecked(c, message, outcome, next) ==
    LET cv == Get(call[c].conversation_id)
    IN  /\ scarLog' = IF outcome = "ok"
                      THEN [scarLog EXCEPT ![cv] =
                              Append(@, [message |-> message, direction |-> "received"])]
                      ELSE scarLog
        /\ call' = [call EXCEPT ![c] = [next EXCEPT !.sends = @ + 1]]

\* One POST /test/message: the request is issued; the runtime records the
\* message as "received" when it answers 2xx, and the request raises otherwise.
Post(c, message, outcome, next) ==
    LET cv == Get(call[c].conversation_id)
    IN  IF outcome = "ok"
        THEN /\ scarLog' = [scarLog EXCEPT ![cv] =
                              Append(@, [message |-> message,
                                         direction |-> "received"])]
             /\ call' = [call EXCEPT ![c] = [next EXCEPT !.sends = @ + 1]]
        ELSE /\ call' = [call EXCEPT ![c] =
                              [call[c] EXCEPT !.pc = "exec_except",
                                              !.sends = @ + 1,
                                              !.exc = Some([type |-> outcome,
                                                            text |-> HttpErrorText(outcome)])]]
             /\ UNCHANGED scarLog

\* send_command, first request: _setup_workspace (client.py:139-140, 96-105).
ExecWorkspace(c, outcome) ==
    /\ call[c].pc = "exec_workspace"
    /\ Post(c, RepoMessage(Get(projects[call[c].project_id].github_repo_url)), outcome,
            [call[c] EXCEPT !.pc = "exec_send"])
    /\ UNCHANGED <<projects, phases, gates, executions>>

\* send_command, second request: the command itself (client.py:155-162);
\* wait_for_completion then starts its clock and counters (client.py:245-247).
ExecSend(c, outcome) ==
    /\ call[c].pc = "exec_send"
    /\ Post(c, CommandStr(Get(call[c].command), call[c].args), outcome,
            [call[c] EXCEPT !.pc = "poll_check", !.poll_start = call[c].now,
                            !.previous_message_count = 0, !.stable_count = 0])
    /\ UNCHANGED <<projects, phases, gates, executions>>

\* One iteration of the polling loop up to its sleep (client.py:249-286).
PollCheck(c, outcome) ==
    LET cv == Get(call[c].conversation_id)
        elapsed == call[c].now - call[c].poll_start
        messages == BotMessages(scarLog[cv])
        upd == PollUpdate(call[c].previous_message_count, call[c].stable_count,
                          Len(messages))
    IN  /\ call[c].pc = "poll_check"
        /\ IF TimedOut(elapsed, ScarTimeoutSeconds)
           THEN /\ outcome = "ok"
                /\ call' = [call EXCEPT ![c] =
                              [call[c] EXCEPT !.pc = "exec_except",
                                 !.exc = Some([type |-> "TimeoutError",
                                               text |-> TimeoutText(elapsed,
                                                          ScarTimeoutSeconds, cv)])]]
           ELSE /\ call' = [call EXCEPT ![c] =
                     IF outcome /= "ok"
                     THEN [call[c] EXCEPT !.pc = "exec_except",
                                          !.exc = Some([type |-> outcome,
                                                        text |-> HttpErrorText(outcome)])]
                     ELSE [call[c] EXCEPT
                             !.pc = IF Quiescent(upd.stable_count)
                                    THEN "exec_complete" ELSE "poll_sleep",
                             !.previous_message_count = upd.previous_message_count,
                             !.stable_count = upd.stable_count,
                             !.messages = messages,
                             !.polled = Append(@, Len(messages))]]
        /\ UNCHANGED <<projects, phases, gates, executions, scarLog>>

\* await asyncio.sleep(poll_interval)
PollSleep(c) ==
    /\ call[c].pc = "poll_sleep"
    /\ call' = [call EXCEPT ![c] =
                  [call[c] EXCEPT !.pc = "poll_check", !.now = @ + PollInterval]]
    /\ UNCHANGED <<projects, phases, gates, executions, scarLog>>

\* "\n".join(msg.message for msg in messages)
Output(messages) ==
    JoinWith(<<"\n">>, [i \in 1..Len(messages) |-> messages[i].message])

\* Lines 127-156: the row is set COMPLETED with the output.
ExecComplete(c) ==
    LET output == Output(call[c].messages)
    IN  /\ call[c].pc = "exec_complete"
        /\ executions' = [executions EXCEPT ![Get(call[c].exec_id)] =
                            [@ EXCEPT !.status = "COMPLETED",
                                      !.completed_at = Some("set"),
                                      !.output = Some(output)]]
        /\ call' = [call EXCEPT ![c] =
                      Deliver(call[c], [success |-> TRUE, output |-> output, error |-> None,
                                  duration_seconds |-> call[c].now - call[c].start_time])]
        /\ UNCHANGED <<projects, phases, gates, scarLog>>

\* Lines 158-233: every exception sets the row FAILED with its error text.
ExecExcept(c) ==
    LET duration == call[c].now - call[c].start_time
        error_msg == ErrorMsg(Get(call[c].exc), duration)
    IN  /\ call[c].pc = "exec_except"
        /\ executions' = [executions EXCEPT ![Get(call[c].exec_id)] =
                            [@ EXCEPT !.status = "FAILED",
                                      !.completed_at = Some("set"),
                                      !.error = Some(error_msg)]]
        /\ call' = [call EXCEPT ![c] =
                      Deliver(call[c], [success |-> FALSE, output |-> <<>>,
                                  error |-> Some(error_msg),
                                  duration_seconds |-> duration])]
        /\ UNCHANGED <<projects, phases, gates, scarLog>>

\* The remote runtime appends a message of its own to a conversation while a
\* call polls it.
RuntimeEmit(cv, m) ==
    /\ \E c \in Callers : /\ call[c].pc \in {"poll_check", "poll_sleep"}
                          /\ call[c].conversation_id = Some(cv)
    /\ Len(BotMessages(scarLog[cv])) < MaxRuntimeMessages
    /\ scarLog' = [scarLog EXCEPT ![cv] =
                     Append(@, [message |-> <<m>>, direction |-> "sent"])]
    /\ UNCHANGED <<projects, phases, gates, executions, call>>

\* ---------------------------------- handle_approval_response and the gates
GateExists(gate_id) == gate_id \in 1..Len(gates)

\* workflow_orchestrator.py:317-329: the gate is looked up and must be Pending.
ResSelect(rec) ==
    IF ~GateExists(rec.gate_id)
    THEN Returned(rec, FALSE, <<"Approval gate not found">>)
    ELSE IF ~GateResolvable(gates[rec.gate_id])
    THEN Returned(rec, FALSE, <<"Gate already ", gates[rec.gate_id].status>>)
    ELSE [rec EXCEPT !.project_id = gates[rec.gate_id].project_id,
                     !.pc = IF rec.approved THEN "approve_gate" ELSE "reject_gate"]

\* handle_approval_response is called; it runs up to its choice of
\* approve_gate or reject_gate.
StartResolve(c, gate_id, approved, notes) ==
    /\ call[c].pc = "idle"
    /\ call' = [call EXCEPT ![c] =
                  ResSelect(Begun("resolve", "res_select", UnknownProject,
                                  gate_id, approved, notes))]
    /\ UNCHANGED <<projects, phases, gates, executions, scarLog>>

\* approve_gate (approval_gate.py:87-106).  Called by handle_approval_response,
\* it is followed by advance_workflow on the gate's project (line 334).
ApproveGateBody(c, rec) ==
    LET gate_id == rec.gate_id
        approved == ApprovedGate(LoadedGate(gate_id), rec.notes)
    IN  /\ IF ~GateExists(gate_id)
           THEN /\ call' = [call EXCEPT ![c] =
                              Raised(rec, "ValueError",
                                     <<"Approval gate ", NumStr(gate_id), " not found">>)]
                /\ UNCHANGED gates
           ELSE IF ~GateResolvable(gates[gate_id])
           THEN /\ call' = [call EXCEPT ![c] =
                              Raised(rec, "ValueError",
                                     <<"Gate already ", gates[gate_id].status>>)]
                /\ UNCHANGED gates
           ELSE /\ gates' = [gates EXCEPT ![gate_id].status = approved.status]
                /\ call' = [call EXCEPT ![c] =
                              IF rec.op = "resolve"
                              THEN [rec EXCEPT !.pc = "adv_state", !.nested = TRUE,
                                               !.gate = Some(approved)]
                              ELSE Returned([rec EXCEPT !.gate = Some(approved)],
                                            TRUE, <<>>)]
        /\ UNCHANGED <<projects, phases, executions, scarLog>>

ApproveGate(c) ==
    /\ call[c].pc = "approve_gate"
    /\ ApproveGateBody(c, call[c])

\* approve_gate called on its own.
StartApproveGate(c, gate_id, notes) ==
    /\ call[c].pc = "idle"
    /\ ApproveGateBody(c, Begun("approve_gate", "approve_gate", UnknownProject,
                                gate_id, TRUE, notes))

\* reject_gate (approval_gate.py:123-141).  handle_approval_response passes
\* "notes or 'User rejected'" and then returns failure (lines 337-338).
RejectGateBody(c, rec) ==
    LET gate_id == rec.gate_id
        reason == IF rec.op = "resolve" THEN RejectReason(rec.notes)
                  ELSE Get(rec.notes)
        rejected == RejectedGate(LoadedGate(gate_id), reason)
        done == [rec EXCEPT !.gate = Some(rejected)]
    IN  /\ IF ~GateExists(gate_id)
           THEN /\ call' = [call EXCEPT ![c] =
                              Raised(rec, "ValueError",
                                     <<"Approval gate ", NumStr(gate_id), " not found">>)]
                /\ UNCHANGED gates
           ELSE IF ~GateResolvable(gates[gate_id])
           THEN /\ call' = [call EXCEPT ![c] =
                              Raised(rec, "ValueError",
                                     <<"Gate already ", gates[gate_id].status>>)]
                /\ UNCHANGED gates
           ELSE /\ gates' = [gates EXCEPT ![gate_id].status = rejected.status]
                /\ call' = [call EXCEPT ![c] =
                              IF rec.op = "resolve"
                              THEN Returned(done, FALSE,
                                            <<"Approval rejected. Workflow paused.">>)
                              ELSE Returned(done, TRUE, <<>>)]
        /\ UNCHANGED <<projects, phases, executions, scarLog>>

RejectGate(c) ==
    /\ call[c].pc = "reject_gate"
    /\ RejectGateBody(c, call[c])

\* reject_gate called on its own.
StartRejectGate(c, gate_id, notes) ==
    /\ call[c].pc = "idle"
    /\ RejectGateBody(c, Begun("reject_gate", "reject_gate", UnknownProject,
                               gate_id, FALSE, notes))

\* The caller takes the outcome of its call; it may then call again.
Collect(c) ==
    /\ call[c].pc = "done"
    /\ call' = [call EXCEPT ![c] = IdleCall]
    /\ UNCHANGED <<projects, phases, gates, executions, scarLog>>

\* ------------------------------------------------------- the specification
\* The steps of a running call.
Step(c) ==
    \/ AdvState(c)
    \/ AdvSelect(c)
    \/ AdvCreate(c)
    \/ AdvRoute(c)
    \/ AdvBlock(c)
    \/ AdvResult(c)
    \/ ExecBegin(c)
    \/ ExecRunning(c)
    \/ \E outcome \in HttpOutcomes : ExecWorkspace(c, outcome)
    \/ \E outcome \in HttpOutcomes : ExecSend(c, outcome)
    \/ \E outcome \in HttpOutcomes : PollCheck(c, outcome)
    \/ PollSleep(c)
    \/ ExecComplete(c)
    \/ ExecExcept(c)
    \/ ApproveGate(c)
    \/ RejectGate(c)
    \/ Collect(c)

\* Calls are issued one at a time: a call starts only when none is running.
Start(c) ==
    /\ AllIdle
    /\ \/ \E p \in ProjectIds : StartAdvance(c, p)
       \/ \E g \in 1..(Len(gates) + 1), approved \in BOOLEAN, notes \in Notes :
            StartResolve(c, g, approved, notes)
       \/ \E g \in 1..(Len(gates) + 1) : StartApproveGate(c, g, None)
       \/ \E g \in 1..(Len(gates) + 1) :
            StartRejectGate(c, g, Some(<<"Needs more detail">>))

Environment == \E cv \in Conversations, m \in RuntimeMessages : RuntimeEmit(cv, m)

Next ==
    \/ \E c \in Callers : Start(c) /\ UNCHANGED <<topicVars, pipeline>>
    \/ \E c \in Callers : Step(c) /\ UNCHANGED <<topicVars, pipeline>>
    \/ Environment /\ UNCHANGED <<topicVars, pipeline>>

Spec == Init /\ [][Next]_vars

\* ----------------------------------- execute_scar_command called directly
\* The commands of the specification of direct executions.
ExecCommands == {"prime"}

\* execute_scar_command(session, project_id, command, args): no phase.
StartExecute(c, project_id, command) ==
    /\ call[c].pc = "idle"
    /\ Len(executions) < MaxExecutions
    /\ call' = [call EXCEPT ![c] =
                  [Begun("execute", "exec_begin", project_id, 0, FALSE, None)
                     EXCEPT !.command = Some(command), !.args = <<>>]]
    /\ UNCHANGED <<projects, phases, gates, executions, scarLog>>

\* A slip: the cancellation is handled like any other exception.
CancelHandled(c) ==
    /\ call[c].pc \in {"exec_workspace", "exec_send", "poll_check", "poll_sleep"}
    /\ call' = [call EXCEPT ![c] =
                  [call[c] EXCEPT !.pc = "exec_except",
                                  !.exc = Some([type |-> "CancelledError", text |-> <<>>])]]
    /\ UNCHANGED <<projects, phases, gates, executions, scarLog>>

\* The task that runs the call is cancelled while it is suspended in a
\* request, a poll or a sleep: CancelledError is raised there, and since it is
\* not an Exception no except branch of execute_scar_command handles it.
Cancel(c) ==
    /\ call[c].pc \in {"exec_workspace", "exec_send", "poll_check", "poll_sleep"}
    /\ call' = [call EXCEPT ![c] = Raised(call[c], "CancelledError", <<>>)]
    /\ UNCHANGED <<projects, phases, gates, executions, scarLog>>

\* The time a polling call has spent beyond its sleeps.
Delayed(rec) == (rec.now - rec.poll_start) - PollInterval * Len(rec.polled)

\* A wake-up or the request before it took a second longer.
Delay(c) ==
    /\ call[c].pc = "poll_check"
    /\ Delayed(call[c]) < MaxDelay
    /\ call' = [call EXCEPT ![c] = [call[c] EXCEPT !.now = @ + 1]]
    /\ UNCHANGED <<projects, phases, gates, executions, scarLog>>

\* The k-th message the runtime emits to a conversation.
RuntimeMessage(k) == <<"message ", NumStr(k)>>

\* The remote runtime appends a message to a conversation a call polls.
ExecEmit(cv) ==
    /\ \E c \in Callers : /\ call[c].pc \in {"poll_check", "poll_sleep"}
                          /\ call[c].conversation_id = Some(cv)
    /\ Len(BotMessages(scarLog[cv])) < MaxExecMessages
    /\ scarLog' = [scarLog EXCEPT ![cv] =
                     Append(@, [message |-> RuntimeMessage(Len(BotMessages(@)) + 1),
                                direction |-> "sent"])]
    /\ UNCHANGED <<projects, phases, gates, executions, call>>

ExecStep(c) ==
    \/ ExecBegin(c)
    \/ ExecRunning(c)
    \/ \E outcome \in HttpOutcomes : ExecWorkspace(c, outcome)
    \/ \E outcome \in HttpOutcomes : ExecSend(c, outcome)
    \/ \E outcome \in HttpOutcomes : PollCheck(c, outcome)
    \/ PollSleep(c)
    \/ ExecComplete(c)
    \/ ExecExcept(c)
    \/ Collect(c)

ExecStart(c) ==
    /\ AllIdle
    /\ \E p \in ProjectIds, command \in ExecCommands : StartExecute(c, p, command)

ExecEnvironment ==
    \/ \E c \in Callers : Cancel(c)
    \/ \E c \in Callers : Delay(c)
    \/ \E cv \in Conversations : ExecEmit(cv)

ExecNext ==
    \/ \E c \in Callers : ExecStart(c) /\ UNCHANGED <<topicVars, pipeline>>
    \/ \E c \in Callers : ExecStep(c) /\ UNCHANGED <<topicVars, pipeline>>
    \/ ExecEnvironment /\ UNCHANGED <<topicVars, pipeline>>

ExecSpec == Init /\ [][ExecNext]_vars

\* The steps of a call are taken as long as it runs (the event loop resumes a
\* task whose await has finished); requests are answered, sleeps end.
ExecFairness == \A c \in {1} : WF_vars(ExecStep(c) /\ UNCHANGED <<topicVars, pipeline>>)

ExecLiveSpec == ExecSpec /\ ExecFairness


\* ------------------------------------------------- the conversation topics
\* A text whose characters matter is the sequence of its characters.
UpperCase == <<"A", "B", "C", "D", "E", "F", "G", "H", "I", "J", "K", "L", "M",
               "N", "O", "P", "Q", "R", "S", "T", "U", "V", "W", "X", "Y", "Z">>
LowerCase == <<"a", "b", "c", "d", "e", "f", "g", "h", "i", "j", "k", "l", "m",
               "n", "o", "p", "q", "r", "s", "t", "u", "v", "w", "x", "y", "z">>

\* str.lower()
LowerChar(ch) ==
    IF \E i \in 1..Len(UpperCase) : UpperCase[i] = ch
    THEN LowerCase[CHOOSE i \in 1..Len(UpperCase) : UpperCase[i] = ch]
    ELSE ch
Lower(text) == [i \in 1..Len(text) |-> LowerChar(text[i])]

\* topic_switch_phrases of should_create_new_topic
TopicSwitchPhrases ==
    { <<"n", "e", "w", " ", "t", "o", "p", "i", "c">>,
      <<"d", "i", "f", "f", "e", "r", "e", "n", "t", " ", "t", "o", "p", "i", "c">>,
      <<"l", "e", "t", "'", "s", " ", "d", "i", "s", "c", "u", "s", "s">>,
      <<"l", "e", "t", "s", " ", "d", "i", "s", "c", "u", "s", "s">>,
      <<"s", "w", "i", "t", "c", "h", "i", "n", "g", " ", "t", "o">>,
      <<"m", "o", "v", "i", "n", "g", " ", "o", "n", " ", "t", "o">>,
      <<"b", "u", "t", " ", "w", "e", " ", "w", "e", "r", "e", "n", "'", "t", " ", "d", "i", "s", "c", "u", "s", "s", "i", "n", "g">>,
      <<"b", "u", "t", " ", "w", "e", " ", "w", "e", "r", "e", "n", "t", " ", "d", "i", "s", "c", "u", "s", "s", "i", "n", "g">>,
      <<"w", "e", " ", "w", "e", "r", "e", " ", "t", "a", "l", "k", "i", "n", "g", " ", "a", "b", "o", "u", "t">> }

\* A slip: the phrases are looked for in the message as it was typed.
HasSwitchPhraseCaseSensitive(user_message) ==
    \E phrase \in TopicSwitchPhrases : Contains(user_message, phrase)

\* "if phrase in user_lower" for some phrase of the list
HasSwitchPhrase(user_message) ==
    \E phrase \in TopicSwitchPhrases : Contains(Lower(user_message), phrase)

\* "if time_gap > 3600"
GapExceeded(time_gap) == time_gap > TopicGapSeconds

\* The messages users and the assistant write.
HelloText == <<"h", "e", "l", "l", "o">>
NewTopicText == <<"N", "E", "W", " ", "T", "O", "P", "I", "C">>
BackToText == <<"b", "a", "c", "k", " ", "t", "o", " ", "i", "t">>
Contents == {HelloText, NewTopicText, BackToText}
Roles == {"USER", "ASSISTANT", "SYSTEM"}
\* The messages recorded: any of the texts from the user, a plain one and one
\* with a phrase from the assistant, a plain one from the system.
RecordInputs ==
    {<<role, content>> \in Roles \X Contents :
        \/ role = "USER"
        \/ role = "ASSISTANT" /\ content \in {HelloText, NewTopicText}
        \/ role = "SYSTEM" /\ content = HelloText}

\* The ids of the topics of a table that belong to a project and are active.
ActiveTopicIds(table, project_id) ==
    {t \in 1..Len(table) : table[t].project_id = project_id /\ table[t].is_active}

\* A slip: the oldest active topic is taken.
ActiveTopicOldest(table, project_id) ==
    IF ActiveTopicIds(table, project_id) = {} THEN None
    ELSE Some(CHOOSE t \in ActiveTopicIds(table, project_id) :
                \A u \in ActiveTopicIds(table, project_id) :
                    table[u].started_at >= table[t].started_at)

\* get_active_topic: the active topics of the project, ordered by started_at
\* descending, limit 1.
ActiveTopic(table, project_id) ==
    IF ActiveTopicIds(table, project_id) = {} THEN None
    ELSE Some(CHOOSE t \in ActiveTopicIds(table, project_id) :
                \A u \in ActiveTopicIds(table, project_id) :
                    table[u].started_at <= table[t].started_at)

\* The last message of a topic: order by timestamp descending, limit 1.
LastMessage(topic_id) ==
    LET ids == {m \in 1..Len(conversation) : conversation[m].topic_id = Some(topic_id)}
    IN  IF ids = {} THEN None
        ELSE Some(CHOOSE m \in ids :
                    \A n \in ids : conversation[n].timestamp <= conversation[m].timestamp)

\* Message ids in ascending order of timestamp.
RECURSIVE ByTimestamp(_)
ByTimestamp(ids) ==
    IF ids = {} THEN <<>>
    ELSE LET first == CHOOSE m \in ids :
                        \A n \in ids :
                            \/ conversation[m].timestamp < conversation[n].timestamp
                            \/ (conversation[m].timestamp = conversation[n].timestamp /\ m <= n)
         IN  <<first>> \o ByTimestamp(ids \ {first})

\* A slip: the active topic does not filter the messages.
HistoryOfProject(project_id, limit, active_topic_only) ==
    LET ids == {m \in 1..Len(conversation) : conversation[m].project_id = project_id}
        ordered == ByTimestamp(ids)
    IN  [i \in 1..(IF Len(ordered) < limit THEN Len(ordered) ELSE limit) |->
            conversation[ordered[i]]]

\* A slip: the limit keeps the latest messages.
HistoryLatest(project_id, limit, active_topic_only) ==
    LET active == ActiveTopic(topics, project_id)
        ids == {m \in 1..Len(conversation) :
                  /\ conversation[m].project_id = project_id
                  /\ active_topic_only => conversation[m].topic_id = active}
        ordered == ByTimestamp(ids)
        kept == IF Len(ordered) < limit THEN Len(ordered) ELSE limit
    IN  IF active_topic_only /\ IsNone(active) THEN <<>>
        ELSE [i \in 1..kept |-> conversation[ordered[Len(ordered) - kept + i]]]

\* get_conversation_history(session, project_id, limit, None, active_topic_only)
History(project_id, limit, active_topic_only) ==
    LET active == ActiveTopic(topics, project_id)
        ids == {m \in 1..Len(conversation) :
                  /\ conversation[m].project_id = project_id
                  /\ active_topic_only => conversation[m].topic_id = active}
        ordered == ByTimestamp(ids)
    IN  IF active_topic_only /\ IsNone(active) THEN <<>>
        ELSE [i \in 1..(IF Len(ordered) < limit THEN Len(ordered) ELSE limit) |->
                conversation[ordered[i]]]

\* A slip: the previous topic gets its end time but stays active.
EndedTopicStillActive(topic, now) == [topic EXCEPT !.ended_at = Some(now)]

\* create_new_topic lines 62-63: the previous topic is ended.
EndedTopic(topic, now) == [topic EXCEPT !.is_active = FALSE, !.ended_at = Some(now)]

\* create_new_topic lines 68-74: the new topic.
NewTopic(project_id, title, summary, now) ==
    [project_id |-> project_id,
     topic_title |-> IF Truthy(title) THEN Get(title) ELSE <<"Topic ", NumStr(now)>>,
     topic_summary |-> summary, started_at |-> now, ended_at |-> None,
     is_active |-> TRUE]

\* The topics table once the writes of a call are committed: the topic it
\* ended, then the topic it created.
CommittedTopics(rec) ==
    LET ended == IF IsNone(rec.ended) THEN topics
                 ELSE [topics EXCEPT ![Get(rec.ended).id] =
                         EndedTopic(@, Get(rec.ended).now)]
    IN  IF IsNone(rec.new_topic) THEN ended ELSE Append(ended, Get(rec.new_topic))

\* The locals of a call of the conversation services that begins.
TopicBegun(op, first, project_id, role, content) ==
    [IdleCall EXCEPT !.pc = first, !.op = op, !.project_id = project_id,
                     !.role = role, !.content = content,
                     !.tpre = [topics |-> topics, conversation |-> conversation]]

\* A slip: the role of the message is not looked at.
RecordEntryAnyRole(role, content) ==
    IF HasSwitchPhrase(content) THEN "topic_create" ELSE "should_active"

\* tools.py:60-63 and 78: where a message goes first, by its role and text.
RecordEntry(role, content) ==
    IF role /= "USER" THEN "attach_assistant"
    ELSE IF HasSwitchPhrase(content) THEN "topic_create"
    ELSE "should_active"

\* save_conversation_message(session, project_id, role, content), lines 60-63
\* and topic_manager.py:96-112: a user message is searched for the phrases
\* before anything is read.
StartRecord(c, project_id, role, content) ==
    /\ call[c].pc = "idle"
    /\ call' = [call EXCEPT ![c] =
          [TopicBegun("record", RecordEntry(role, content), project_id, role, content)
             EXCEPT !.should = IF RecordEntry(role, content) = "topic_create"
                               THEN Some(TRUE) ELSE None]]
    /\ UNCHANGED <<workVars, topicVars>>

\* should_create_new_topic, lines 114-115: the active topic is read.
ShouldActive(c) ==
    LET active == ActiveTopic(topics, call[c].project_id)
    IN  /\ call[c].pc = "should_active"
        /\ call' = [call EXCEPT ![c] =
              IF IsNone(active)
              THEN [call[c] EXCEPT !.pc = "attach_active", !.should = Some(FALSE)]
              ELSE [call[c] EXCEPT !.pc = "should_last", !.active = active]]
        /\ UNCHANGED <<workVars, topicVars>>

\* should_create_new_topic, lines 117-143: the last message of the active topic
\* is read and its age compared with the gap.
ShouldLast(c) ==
    LET last == LastMessage(Get(call[c].active))
        time_gap == clock - conversation[Get(last)].timestamp
    IN  /\ call[c].pc = "should_last"
        /\ IF IsNone(last)
           THEN /\ call' = [call EXCEPT ![c] =
                              [call[c] EXCEPT !.pc = "attach_active", !.should = Some(FALSE)]]
                /\ UNCHANGED clock
           ELSE /\ call' = [call EXCEPT ![c] =
                              [call[c] EXCEPT
                                 !.pc = IF GapExceeded(time_gap) THEN "topic_create"
                                        ELSE "attach_active",
                                 !.should = Some(GapExceeded(time_gap)),
                                 !.time_gap = Some(time_gap)]]
                /\ clock' = clock + 1
        /\ UNCHANGED <<workVars, topics, conversation>>

\* tools.py:68-77: no switch; the active topic is read again and the message
\* goes to it, or a first topic is created.
AttachActive(c) ==
    LET active == ActiveTopic(topics, call[c].project_id)
    IN  /\ call[c].pc = "attach_active"
        /\ IF IsNone(active)
           THEN /\ call' = [call EXCEPT ![c] =
                              [call[c] EXCEPT !.pc = "topic_create",
                                              !.title = Some(<<"Initial Conversation">>)]]
                /\ UNCHANGED clock
           ELSE /\ call' = [call EXCEPT ![c] =
                              [call[c] EXCEPT !.pc = "commit", !.topic_id = active,
                                              !.timestamp = Some(clock)]]
                /\ clock' = clock + 1
        /\ UNCHANGED <<workVars, topics, conversation>>

\* tools.py:78-82: a message that is not the user's goes to the active topic,
\* if there is one.
AttachAssistant(c) ==
    /\ call[c].pc = "attach_assistant"
    /\ call' = [call EXCEPT ![c] =
                  [call[c] EXCEPT !.pc = "commit",
                                  !.topic_id = ActiveTopic(topics, call[c].project_id),
                                  !.timestamp = Some(clock)]]
    /\ clock' = clock + 1
    /\ UNCHANGED <<workVars, topics, conversation>>

\* create_new_topic (topic_manager.py:60-79): the active topic is read and
\* ended, the new topic is added; both are flushed, to be committed by the
\* caller.  save_conversation_message then builds its message (tools.py:85-91).
TopicCreate(c) ==
    LET active == ActiveTopic(topics, call[c].project_id)
    IN  /\ call[c].pc = "topic_create"
        /\ call' = [call EXCEPT ![c] =
              [call[c] EXCEPT
                 !.pc = "commit",
                 !.ended = IF IsNone(active) THEN None
                           ELSE Some([id |-> Get(active), now |-> clock]),
                 !.new_topic = Some(NewTopic(call[c].project_id, call[c].title,
                                             call[c].summary, clock)),
                 !.timestamp = IF call[c].op = "record" THEN Some(clock + 1) ELSE None]]
        /\ clock' = IF call[c].op = "record" THEN clock + 2 ELSE clock + 1
        /\ UNCHANGED <<workVars, topics, conversation>>

\* The ConversationMessage of tools.py:85-91.
NewMessage(rec, topic_id) ==
    [project_id |-> rec.project_id, topic_id |-> topic_id, role |-> rec.role,
     content |-> rec.content, timestamp |-> Get(rec.timestamp)]

\* A slip: the message stays with the topic that was ended.
MessageTopicPrevious(rec) ==
    IF ~IsNone(rec.ended) THEN Some(Get(rec.ended).id)
    ELSE IF IsNone(rec.new_topic) THEN rec.topic_id
    ELSE Some(Len(topics) + 1)

\* tools.py:66, 72, 77, 82: the topic of the message is the new topic of the
\* call, if it created one, else the active topic it found.
MessageTopic(rec) ==
    IF IsNone(rec.new_topic) THEN rec.topic_id ELSE Some(Len(topics) + 1)

\* A slip: the stored messages of the project move to the new topic.
CommittedConversationReassigned(rec, topic_id) ==
    LET moved == [m \in 1..Len(conversation) |->
                    IF IsNone(rec.new_topic) THEN conversation[m]
                    ELSE [conversation[m] EXCEPT !.topic_id = topic_id]]
    IN  IF rec.op = "record" THEN Append(moved, NewMessage(rec, topic_id)) ELSE moved

\* tools.py:92: the message is added to the table; no stored message is
\* written by any of the calls.
CommittedConversation(rec, topic_id) ==
    IF rec.op = "record" THEN Append(conversation, NewMessage(rec, topic_id))
    ELSE conversation

\* session.commit(): what the call wrote becomes the state of the tables.
Commit(c) ==
    LET topic_id == MessageTopic(call[c])
    IN  /\ call[c].pc = "commit"
        /\ topics' = CommittedTopics(call[c])
        /\ conversation' = CommittedConversation(call[c], topic_id)
        /\ call' = [call EXCEPT ![c] =
                      Returned([call[c] EXCEPT !.topic_id = topic_id], TRUE, <<>>)]
        /\ UNCHANGED <<workVars, clock>>

\* create_new_topic(session, project_id) followed by the caller's commit.
StartNewTopic(c, project_id) ==
    /\ call[c].pc = "idle"
    /\ call' = [call EXCEPT ![c] =
                  TopicBegun("new_topic", "topic_create", project_id, "", <<>>)]
    /\ UNCHANGED <<workVars, topicVars>>

\* POST /projects/{project_id}/reset (api/projects.py:139-197).
StartReset(c, project_id) ==
    /\ call[c].pc = "idle"
    /\ call' = [call EXCEPT ![c] =
                  TopicBegun("reset", "reset_select", project_id, "", <<>>)]
    /\ UNCHANGED <<workVars, topicVars>>

\* api/projects.py:162-176: 404 for an unknown project, else a new topic.
ResetSelect(c) ==
    /\ call[c].pc = "reset_select"
    /\ call' = [call EXCEPT ![c] =
          IF ~ProjectExists(call[c].project_id)
          THEN Raised(call[c], "HTTPException",
                      <<"Project ", call[c].project_id, " not found">>)
          ELSE [call[c] EXCEPT !.pc = "topic_create",
                               !.title = Some(<<"Reset - New Conversation">>),
                               !.summary = Some(<<"User requested context reset">>)]]
    /\ UNCHANGED <<workVars, topicVars>>

\* Time passes while no call runs.
TopicGaps == {TopicGapSeconds - 1, TopicGapSeconds}
TopicTick(d) ==
    /\ AllIdle
    /\ clock + d <= MaxTopicClock
    /\ clock' = clock + d
    /\ UNCHANGED <<workVars, topics, conversation, call>>

TopicStep(c) ==
    \/ ShouldActive(c)
    \/ ShouldLast(c)
    \/ AttachActive(c)
    \/ AttachAssistant(c)
    \/ TopicCreate(c)
    \/ Commit(c)
    \/ ResetSelect(c)
    \/ Collect(c) /\ UNCHANGED <<topicVars, pipeline>>

TopicStart(c) ==
    /\ Len(topics) + Len(conversation) < MaxTopicRows
    /\ \/ \E p \in Projects, input \in RecordInputs :
            StartRecord(c, p, input[1], input[2])
       \/ \E p \in Projects : StartNewTopic(c, p)
       \/ \E p \in ProjectIds : StartReset(c, p)

\* The calls run one after the other.
TopicNext ==
    \/ \E c \in Callers : AllIdle /\ TopicStart(c)
    \/ \E c \in Callers : TopicStep(c)
    \/ \E d \in TopicGaps : TopicTick(d)

\* The conversation calls do not read the repository of the project.
NoRepository == \A p \in Projects : IsNone(projects[p].github_repo_url)

TopicInit == Init /\ NoRepository

TopicSpec == TopicInit /\ [][TopicNext]_vars

\* Two requests are served at a time, each in its own session.
RaceInit ==
    /\ InitTables
    /\ pipeline = WORKFLOW_PHASES
    /\ InitConversation
    /\ NoRepository
    /\ call = [c \in {1, 2} |-> IdleCall]

\* The rows written and being written by the racing requests.
RaceWrites ==
    Len(topics) + Len(conversation)
        + Cardinality({c \in Callers : call[c].pc \notin {"idle", "done"}})

\* The requests that race: plain messages and explicit new topics.
RaceStart(c) ==
    /\ RaceWrites < MaxRaceWrites
    /\ \/ \E p \in Projects, role \in Roles : StartRecord(c, p, role, HelloText)
       \/ \E p \in Projects : StartNewTopic(c, p)

RaceStep(c) ==
    \/ ShouldActive(c)
    \/ ShouldLast(c)
    \/ AttachActive(c)
    \/ AttachAssistant(c)
    \/ TopicCreate(c)
    \/ Commit(c)
    \/ Collect(c) /\ UNCHANGED <<topicVars, pipeline>>

TopicRaceNext ==
    \/ \E c \in Callers : RaceStart(c)
    \/ \E c \in Callers : RaceStep(c)

TopicRaceSpec == RaceInit /\ [][TopicRaceNext]_vars

\* ------------------------------------- workflow calls at the same time
\* approve_gate, lines 87-95: the gate is selected and must be Pending.
ApproveGateLoad(c) ==
    /\ call[c].pc = "approve_gate"
    /\ call' = [call EXCEPT ![c] =
          IF ~GateExists(call[c].gate_id)
          THEN Raised(call[c], "ValueError",
                      <<"Approval gate ", NumStr(call[c].gate_id), " not found">>)
          ELSE IF ~GateResolvable(gates[call[c].gate_id])
          THEN Raised(call[c], "ValueError",
                      <<"Gate already ", gates[call[c].gate_id].status>>)
          ELSE [call[c] EXCEPT !.pc = "approve_commit"]]
    /\ UNCHANGED <<workVars, topicVars>>

\* approve_gate, lines 98-106: the status is written and committed;
\* handle_approval_response goes on to advance_workflow.
ApproveGateCommit(c) ==
    LET approved == ApprovedGate(LoadedGate(call[c].gate_id), call[c].notes)
    IN  /\ call[c].pc = "approve_commit"
        /\ gates' = [gates EXCEPT ![call[c].gate_id].status = approved.status]
        /\ call' = [call EXCEPT ![c] =
                      [call[c] EXCEPT !.pc = "adv_state", !.nested = TRUE,
                                      !.gate = Some(approved)]]
        /\ UNCHANGED <<projects, phases, executions, scarLog, topicVars, pipeline>>

\* reject_gate, lines 123-131: the gate is selected and must be Pending.
RejectGateLoad(c) ==
    /\ call[c].pc = "reject_gate"
    /\ call' = [call EXCEPT ![c] =
          IF ~GateExists(call[c].gate_id)
          THEN Raised(call[c], "ValueError",
                      <<"Approval gate ", NumStr(call[c].gate_id), " not found">>)
          ELSE IF ~GateResolvable(gates[call[c].gate_id])
          THEN Raised(call[c], "ValueError",
                      <<"Gate already ", gates[call[c].gate_id].status>>)
          ELSE [call[c] EXCEPT !.pc = "reject_commit"]]
    /\ UNCHANGED <<workVars, topicVars>>

\* reject_gate, lines 134-141: the status is written and committed;
\* handle_approval_response returns failure.
RejectGateCommit(c) ==
    LET rejected == RejectedGate(LoadedGate(call[c].gate_id), RejectReason(call[c].notes))
    IN  /\ call[c].pc = "reject_commit"
        /\ gates' = [gates EXCEPT ![call[c].gate_id].status = rejected.status]
        /\ call' = [call EXCEPT ![c] =
                      Returned([call[c] EXCEPT !.gate = Some(rejected)], FALSE,
                               <<"Approval rejected. Workflow paused.">>)]
        /\ UNCHANGED <<projects, phases, executions, scarLog, topicVars, pipeline>>

\* The calls that have started and not ended.
Running == {c \in Callers : call[c].pc \notin {"idle", "done"}}

\* advance_workflow and handle_approval_response are called while another call
\* may be running.
WorkRaceStart(c) ==
    /\ Len(phases) + Cardinality(Running) < MaxRacePhases
    /\ \/ \E p \in Projects : StartAdvance(c, p)
       \/ \E g \in 1..Len(gates), approved \in BOOLEAN :
            StartResolve(c, g, approved, None)
    /\ UNCHANGED <<topicVars, pipeline>>

WorkRaceStep(c) ==
    \/ ApproveGateLoad(c)
    \/ ApproveGateCommit(c)
    \/ RejectGateLoad(c)
    \/ RejectGateCommit(c)
    \/ /\ \/ AdvState(c)
          \/ AdvSelect(c)
          \/ AdvCreate(c)
          \/ AdvRoute(c)
          \/ AdvBlock(c)
          \/ AdvResult(c)
          \/ ExecBegin(c)
          \/ ExecRunning(c)
          \/ ExecWorkspace(c, "ok")
          \/ ExecSend(c, "ok")
          \/ PollCheck(c, "ok")
          \/ PollSleep(c)
          \/ ExecComplete(c)
          \/ Collect(c)
       /\ UNCHANGED <<topicVars, pipeline>>

\* The project has its repository; the runtime answers every request and
\* emits nothing of its own.
WorkRaceInit ==
    /\ InitTables
    /\ pipeline = WORKFLOW_PHASES
    /\ InitConversation
    /\ \A p \in Projects : HasRepo(p)
    /\ call = [c \in {1, 2} |-> IdleCall]

WorkRaceNext ==
    \/ \E c \in Callers : WorkRaceStart(c)
    \/ \E c \in Callers : WorkRaceStep(c)

WorkRaceSpec == WorkRaceInit /\ [][WorkRaceNext]_vars

\* ------------------------------------ a pipeline with a plain entry
\* WORKFLOW_PHASES has no entry without approval and without command, and the
\* last branch of advance_workflow (line 295) is for such an entry: the
\* pipeline followed by a PhaseConfig that keeps the defaults of the class
\* (scar_command None, requires_approval False, approval_gate_type None).
PlainPipeline ==
    Append(WORKFLOW_PHASES,
           [number |-> Len(WORKFLOW_PHASES) + 1, name |-> "Wrap Up",
            description |-> "Close the feature",
            scar_command |-> None, requires_approval |-> FALSE,
            approval_gate_type |-> None])

PlainInit ==
    /\ InitTables
    /\ pipeline = PlainPipeline
    /\ InitConversation
    /\ call = [c \in {1} |-> IdleCall]

PlainSpec == PlainInit /\ [][Next]_vars

\* ------------------------------------- execute with a slow start-up
\* The commit that sets the row RUNNING or one of the two requests of
\* send_command took a second (scar_executor.py:100-115): time passes between
\* the start of the call and the start of wait_for_completion.
SetupDelay(c) ==
    /\ call[c].pc \in {"exec_running", "exec_workspace", "exec_send"}
    /\ call[c].now - call[c].start_time < MaxDelay
    /\ call' = [call EXCEPT ![c] = [call[c] EXCEPT !.now = @ + 1]]
    /\ UNCHANGED <<projects, phases, gates, executions, scarLog>>

ExecSlowNext ==
    \/ ExecNext
    \/ \E c \in Callers : SetupDelay(c) /\ UNCHANGED <<topicVars, pipeline>>

ExecSlowSpec == Init /\ [][ExecSlowNext]_vars

\* -------------------------------------------- every operation, in sequence
\* reset_workflow (workflow_orchestrator.py:341-362) is called.
StartResetWorkflow(c, project_id) ==
    /\ call[c].pc = "idle"
    /\ call' = [call EXCEPT ![c] =
                  Begun("reset_workflow", "reset_workflow", project_id, 0, FALSE, None)]
    /\ UNCHANGED <<projects, phases, gates, executions, scarLog>>

\* A slip: the phases of the project are dropped with the status.
ResetWorkflowDropsPhases(c) ==
    /\ call[c].pc = "reset_workflow"
    /\ IF ~ProjectExists(call[c].project_id)
       THEN /\ call' = [call EXCEPT ![c] = Returned(call[c], FALSE, <<>>)]
            /\ UNCHANGED <<projects, phases>>
       ELSE /\ projects' = [projects EXCEPT
                              ![call[c].project_id].status = "BRAINSTORMING"]
            /\ phases' = SelectSeq(phases,
                                   LAMBDA r : r.project_id /= call[c].project_id)
            /\ call' = [call EXCEPT ![c] = Returned(call[c], TRUE, <<>>)]
    /\ UNCHANGED <<gates, executions, scarLog>>

\* reset_workflow lines 353-362: the project is selected; False when there is
\* none; else its status is set to Brainstorming and committed, and True.
ResetWorkflow(c) ==
    /\ call[c].pc = "reset_workflow"
    /\ IF ~ProjectExists(call[c].project_id)
       THEN /\ call' = [call EXCEPT ![c] = Returned(call[c], FALSE, <<>>)]
            /\ UNCHANGED projects
       ELSE /\ projects' = [projects EXCEPT
                              ![call[c].project_id].status = "BRAINSTORMING"]
            /\ call' = [call EXCEPT ![c] = Returned(call[c], TRUE, <<>>)]
    /\ UNCHANGED <<phases, gates, executions, scarLog>>

\* Every operation of the workflow, one call at a time, against a remote
\* runtime that answers every request and emits nothing.
OpsStart(c) ==
    /\ AllIdle
    /\ \/ \E p \in ProjectIds : StartAdvance(c, p)
       \/ \E g \in 1..(Len(gates) + 1), approved \in BOOLEAN :
            StartResolve(c, g, approved, None)
       \/ \E p \in ProjectIds : StartResetWorkflow(c, p)
       \/ \E p \in ProjectIds, command \in ExecCommands : StartExecute(c, p, command)

OpsStep(c) ==
    \/ AdvState(c)
    \/ AdvSelect(c)
    \/ AdvCreate(c)
    \/ AdvRoute(c)
    \/ AdvBlock(c)
    \/ AdvResult(c)
    \/ ExecBegin(c)
    \/ ExecRunning(c)
    \/ ExecWorkspace(c, "ok")
    \/ ExecSend(c, "ok")
    \/ PollCheck(c, "ok")
    \/ PollSleep(c)
    \/ ExecComplete(c)
    \/ ApproveGate(c)
    \/ RejectGate(c)
    \/ ResetWorkflow(c)
    \/ Collect(c)

OpsNext ==
    \/ \E c \in Callers : OpsStart(c) /\ UNCHANGED <<topicVars, pipeline>>
    \/ \E c \in Callers : OpsStep(c) /\ UNCHANGED <<topicVars, pipeline>>

OpsSpec == Init /\ [][OpsNext]_vars

\* ------------------------------------------- a caller that drives a project
\* The caller approves a Pending gate of a project that is not Completed, and
\* calls advance when the project has none.
DriveStart(c) ==
    /\ AllIdle
    /\ \E p \in Projects :
         LET pending == {g \in 1..Len(gates) :
                           gates[g].project_id = p /\ gates[g].status = "PENDING"}
         IN  /\ projects[p].status /= "COMPLETED"
             /\ IF pending /= {}
                THEN \E g \in pending : StartResolve(c, g, TRUE, None)
                ELSE StartAdvance(c, p)

\* The steps of the calls such a caller makes.
DriveStep(c) ==
    \/ AdvState(c)
    \/ AdvSelect(c)
    \/ AdvCreate(c)
    \/ AdvRoute(c)
    \/ AdvBlock(c)
    \/ AdvResult(c)
    \/ ExecBegin(c)
    \/ ExecRunning(c)
    \/ \E outcome \in HttpOutcomes : ExecWorkspace(c, outcome)
    \/ \E outcome \in HttpOutcomes : ExecSend(c, outcome)
    \/ \E outcome \in HttpOutcomes : PollCheck(c, outcome)
    \/ PollSleep(c)
    \/ ExecComplete(c)
    \/ ExecExcept(c)
    \/ ApproveGate(c)
    \/ Collect(c)

DriveNext ==
    \/ \E c \in Callers : DriveStart(c) /\ UNCHANGED <<topicVars, pipeline>>
    \/ \E c \in Callers : DriveStep(c) /\ UNCHANGED <<topicVars, pipeline>>
    \/ Environment /\ UNCHANGED <<topicVars, pipeline>>

DriveSpec == Init /\ [][DriveNext]_vars

\* A running call is resumed by the event loop until it ends, and the caller
\* makes its next call when the previous one has ended.
DriveFairness ==
    \A c \in {1} : /\ WF_vars(DriveStep(c) /\ UNCHANGED <<topicVars, pipeline>>)
                   /\ WF_vars(DriveStart(c) /\ UNCHANGED <<topicVars, pipeline>>)

DriveLiveSpec == DriveSpec /\ DriveFairness

\* =================================================================== claims
\* What the claims read: a call that has ended, its outcome, and the tables
\* as they were when it began.
Done(c) == call[c].pc = "done"
Ret(c) == Get(call[c].ret)
Pre(c) == call[c].pre

\* The rows of a project in a phases table, in creation order.
PhasesIn(table, p) == SelectSeq(table, LAMBDA r : r.project_id = p)
GatesIn(table, p) == SelectSeq(table, LAMBDA r : r.project_id = p)

\* The highest phase number of a project in a phases table (0 if none).
HighestIn(table, p) ==
    IF PhasesIn(table, p) = <<>> THEN 0
    ELSE CHOOSE n \in {PhasesIn(table, p)[i].phase_number : i \in 1..Len(PhasesIn(table, p))} :
           \A i \in 1..Len(PhasesIn(table, p)) : PhasesIn(table, p)[i].phase_number <= n

\* The pipeline entries with a given number.
EntriesNumbered(n) == {k \in 1..Len(WORKFLOW_PHASES) : WORKFLOW_PHASES[k].number = n}

\* The project an ended or running call worked on (for a resolve: the project
\* of its gate, when the gate exists).
ProjectOf(c) ==
    IF call[c].op \in {"advance", "execute", "reset_workflow"} THEN call[c].project_id
    ELSE IF call[c].gate_id \in 1..Len(Pre(c).gates)
    THEN Pre(c).gates[call[c].gate_id].project_id
    ELSE UnknownProject

\* The part of a call that is advance_workflow: the whole of an advance call,
\* and what a resolve call does after it approved its gate.
InAdvance(c) == call[c].op = "advance" \/ (call[c].op = "resolve" /\ call[c].nested)

\* ------------------------------------------------------------------- C1
\* C1: with calls issued one after the other, the phase numbers of a project
\* are 1, 2, ..., k in creation order, k at most the pipeline length (strictly
\* increasing, no gap, no duplicate); a row keeps its number; and a call adds
\* at most one row.
C1_PhaseNumbersSequential ==
    /\ \A p \in Projects :
         /\ Len(PhasesIn(phases, p)) <= Len(WORKFLOW_PHASES)
         /\ \A i \in 1..Len(PhasesIn(phases, p)) : PhasesIn(phases, p)[i].phase_number = i
    /\ \A c \in Callers :
         call[c].pc /= "idle" =>
           /\ Len(phases) \in {Len(Pre(c).phases), Len(Pre(c).phases) + 1}
           /\ \A i \in 1..Len(Pre(c).phases) :
                phases[i].phase_number = Pre(c).phases[i].phase_number

\* C1 witness: a resolve call has added the last phase of the pipeline.
C1_Witness ==
    \E c \in Callers :
        /\ Done(c) /\ call[c].op = "resolve"
        /\ Len(phases) = Len(Pre(c).phases) + 1
        /\ \E p \in Projects : Len(PhasesIn(phases, p)) = Len(WORKFLOW_PHASES)

\* ------------------------------------------------------------------- C2
\* The gate opened for a Blocked phase: the j-th gate of the project, for the
\* j-th phase of the project that requires approval.
GateOfLatest(ptable, gtable, p) ==
    LET ps == PhasesIn(ptable, p)
        j == Cardinality({i \in 1..Len(ps) : ps[i].status = "BLOCKED"})
        ids == {g \in 1..Len(gtable) : gtable[g].project_id = p}
    IN  IF j = 0 \/ Cardinality(ids) < j THEN 0
        ELSE CHOOSE g \in ids : Cardinality({h \in ids : h <= g}) = j

\* The latest phase of p is Blocked and its gate is Pending.
HaltedIn(ptable, gtable, p) ==
    LET ps == PhasesIn(ptable, p)
    IN  /\ ps /= <<>>
        /\ \E i \in 1..Len(ps) :
             /\ ps[i].phase_number = HighestIn(ptable, p)
             /\ ps[i].status = "BLOCKED"
        /\ ps[Len(ps)].status = "BLOCKED"
        /\ GateOfLatest(ptable, gtable, p) /= 0
        /\ gtable[GateOfLatest(ptable, gtable, p)].status = "PENDING"

\* C2 (as claimed): while the latest phase of a project is Blocked and its gate
\* is still Pending, no call adds a phase to the project or sends a command.
C2_HaltsWhilePending ==
    \A c \in Callers : \A p \in Projects :
        ( /\ call[c].pc /= "idle"
          /\ HaltedIn(Pre(c).phases, Pre(c).gates, p)
          /\ gates[GateOfLatest(Pre(c).phases, Pre(c).gates, p)].status = "PENDING" )
        => /\ Len(PhasesIn(phases, p)) = Len(PhasesIn(Pre(c).phases, p))
           /\ call[c].sends = 0

\* ------------------------------------------------------------------- C3
\* C3: a resolve of a gate that was already Approved or Rejected when the call
\* began fails, whatever the decision: handle_approval_response returns
\* (false, "Gate already ..."), approve_gate and reject_gate raise "Gate
\* already ..."; the gate, its object's notes and resolution time, and every
\* table stay as they were, and nothing is sent.
C3_SecondResolveFails ==
    \A c \in Callers :
        ( /\ Done(c)
          /\ call[c].op \in {"resolve", "approve_gate", "reject_gate"}
          /\ call[c].gate_id \in 1..Len(Pre(c).gates)
          /\ Pre(c).gates[call[c].gate_id].status /= "PENDING" )
        => /\ ~Ret(c).success
           /\ Ret(c).message = <<"Gate already ", Pre(c).gates[call[c].gate_id].status>>
           /\ Ret(c).kind = IF call[c].op = "resolve" THEN "return" ELSE "raise"
           /\ gates = Pre(c).gates
           /\ IsNone(call[c].gate)
           /\ phases = Pre(c).phases
           /\ executions = Pre(c).executions
           /\ projects = Pre(c).projects
           /\ call[c].sends = 0

\* C3 witness: a Rejected gate was resolved again, this time with approval.
C3_Witness ==
    \E c \in Callers :
        /\ Done(c) /\ call[c].op = "resolve" /\ call[c].approved
        /\ call[c].gate_id \in 1..Len(Pre(c).gates)
        /\ Pre(c).gates[call[c].gate_id].status = "REJECTED"

\* ------------------------------------------------------------------- C4
\* C4: advance on a project without phases, the first pipeline entry requiring
\* approval, leaves exactly one phase (number 1, Blocked) and exactly one gate
\* (Pending, of the configured type), sends nothing, creates no execution, and
\* returns success with a message naming the phase.
C4_FirstAdvanceOpensGate ==
    \A c \in Callers :
        ( /\ Done(c) /\ call[c].op = "advance"
          /\ call[c].project_id \in Projects
          /\ PhasesIn(Pre(c).phases, call[c].project_id) = <<>>
          /\ WORKFLOW_PHASES[1].requires_approval )
        => LET p == call[c].project_id
               ps == PhasesIn(phases, p)
               gs == GatesIn(gates, p)
           IN  /\ Len(ps) = 1
               /\ ps[1].phase_number = 1
               /\ ps[1].status = "BLOCKED"
               /\ Len(gs) = 1
               /\ gs[1].status = "PENDING"
               /\ gs[1].gate_type = Get(WORKFLOW_PHASES[1].approval_gate_type)
               /\ call[c].sends = 0
               /\ executions = Pre(c).executions
               /\ Ret(c).kind = "return" /\ Ret(c).success
               /\ Contains(Ret(c).message, <<WORKFLOW_PHASES[1].name>>)

\* C4 witness: such an advance has ended.
C4_Witness ==
    \E c \in Callers :
        /\ Done(c) /\ call[c].op = "advance" /\ call[c].project_id \in Projects
        /\ Pre(c).phases = <<>>
        /\ Len(phases) = 1 /\ Len(gates) = 1

\* The pipeline entry that follows the phases a call found, if there is one.
NextNumber(c) == HighestIn(Pre(c).phases, ProjectOf(c)) + 1
HasNextEntry(c) == EntriesNumbered(NextNumber(c)) /= {}
NextEntry(c) == WORKFLOW_PHASES[CHOOSE k \in EntriesNumbered(NextNumber(c)) : TRUE]

\* A resolve call on a gate that exists and was Pending when the call began.
ResolvesPending(c) ==
    /\ call[c].op = "resolve"
    /\ call[c].gate_id \in 1..Len(Pre(c).gates)
    /\ Pre(c).gates[call[c].gate_id].status = "PENDING"

\* ------------------------------------------------------------------- C5
\* C5: resolve with approved = true on a Pending gate first sets the gate
\* Approved, storing the notes, and only then runs advance, in the same call:
\* until the gate is Approved the call has touched no phase and sent nothing,
\* and the call does not end before advance ran.  When the next pipeline entry
\* has a command and no approval and the remote execution succeeds, the call
\* ends with exactly one more phase, that phase Completed, and returns
\* success with a message that contains the phase's name.
C5_ApproveThenAdvance ==
    \A c \in Callers :
        (call[c].pc /= "idle" /\ ResolvesPending(c) /\ call[c].approved) =>
          /\ call[c].nested =>
               /\ gates[call[c].gate_id].status = "APPROVED"
               /\ ~IsNone(call[c].gate)
               /\ Get(call[c].gate).status = "APPROVED"
               /\ Get(call[c].gate).approver_notes =
                    (IF Truthy(call[c].notes) THEN call[c].notes ELSE None)
          /\ ~call[c].nested =>
               /\ gates[call[c].gate_id].status = "PENDING"
               /\ phases = Pre(c).phases /\ executions = Pre(c).executions
               /\ call[c].sends = 0
          /\ Done(c) => call[c].nested
          /\ ( /\ Done(c) /\ HasNextEntry(c)
               /\ ~IsNone(NextEntry(c).scar_command)
               /\ ~NextEntry(c).requires_approval
               /\ ~IsNone(call[c].result) /\ Get(call[c].result).success )
             => /\ Len(phases) = Len(Pre(c).phases) + 1
                /\ phases[Len(phases)].phase_number = NextNumber(c)
                /\ phases[Len(phases)].status = "COMPLETED"
                /\ \A i \in 1..Len(Pre(c).phases) : phases[i] = Pre(c).phases[i]
                /\ Ret(c).kind = "return" /\ Ret(c).success
                /\ Contains(Ret(c).message, <<NextEntry(c).name>>)

\* C5 witness: an approval with notes ran a command phase to completion.
C5_Witness ==
    \E c \in Callers :
        /\ Done(c) /\ ResolvesPending(c) /\ call[c].approved
        /\ Truthy(call[c].notes)
        /\ ~IsNone(call[c].result) /\ Get(call[c].result).success
        /\ Len(phases) = Len(Pre(c).phases) + 1
        /\ phases[Len(phases)].status = "COMPLETED"

\* ------------------------------------------------------------------- C6
\* C6: resolve with approved = false on a Pending gate sets the gate Rejected
\* with the notes (the text "User rejected" when no notes were given), returns
\* success = false, creates no phase, sends no command, and leaves the project
\* status, every phase, every other gate and every execution as they were.
C6_RejectPauses ==
    \A c \in Callers :
        (Done(c) /\ ResolvesPending(c) /\ ~call[c].approved) =>
          /\ gates[call[c].gate_id].status = "REJECTED"
          /\ ~IsNone(call[c].gate)
          /\ Get(call[c].gate).status = "REJECTED"
          /\ Get(call[c].gate).approver_notes =
               (IF Truthy(call[c].notes) THEN call[c].notes
                ELSE Some(<<"User rejected">>))
          /\ Ret(c).kind = "return" /\ ~Ret(c).success
          /\ Len(gates) = Len(Pre(c).gates)
          /\ \A g \in 1..Len(gates) : g /= call[c].gate_id => gates[g] = Pre(c).gates[g]
          /\ phases = Pre(c).phases
          /\ executions = Pre(c).executions
          /\ projects = Pre(c).projects
          /\ call[c].sends = 0
          /\ ~call[c].nested

\* C6 witness: a rejection with notes has ended while phases exist.
C6_Witness ==
    \E c \in Callers :
        /\ Done(c) /\ ResolvesPending(c) /\ ~call[c].approved
        /\ Truthy(call[c].notes)
        /\ phases /= <<>>

\* ------------------------------------------------------------------- C7
\* C7: when the execution run by an advance reports failure, the phase the
\* advance created ends Failed with the execution's error text as its error
\* message, the advance returns success = false with a message that contains
\* that text, and the call has created no further phase and run no further
\* command (one phase, at most one execution row, at most the two requests of
\* one command).
C7_FailureStopsWorkflow ==
    \A c \in Callers :
        ( /\ Done(c) /\ InAdvance(c)
          /\ ~IsNone(call[c].result) /\ ~Get(call[c].result).success )
        => LET error == Get(call[c].result).error
           IN  /\ ~IsNone(error)
               /\ Len(phases) = Len(Pre(c).phases) + 1
               /\ phases[Len(phases)].status = "FAILED"
               /\ phases[Len(phases)].error_message = error
               /\ \A i \in 1..Len(Pre(c).phases) : phases[i] = Pre(c).phases[i]
               /\ Ret(c).kind = "return" /\ ~Ret(c).success
               /\ Contains(Ret(c).message, Get(error))
               /\ Len(executions) \in {Len(Pre(c).executions), Len(Pre(c).executions) + 1}
               /\ Len(executions) > Len(Pre(c).executions) =>
                    /\ executions[Len(executions)].status = "FAILED"
                    /\ executions[Len(executions)].error = error
               /\ call[c].sends <= 2

\* C7 witness: an execution that reached the remote side failed, and the
\* advance that ran it has ended.
C7_Witness ==
    \E c \in Callers :
        /\ Done(c) /\ call[c].op = "advance"
        /\ ~IsNone(call[c].result) /\ ~Get(call[c].result).success
        /\ Len(executions) = Len(Pre(c).executions) + 1
        /\ call[c].sends = 2

\* ------------------------------------------------------------------- C8
\* C8: advance (called directly, or run by a resolve after it approved its
\* gate) on a project whose highest phase number has no successor in the
\* pipeline sets the project status Completed, returns success, and creates no
\* phase, gate or execution; repeated, it changes nothing at all.
C8_CompletionIdempotent ==
    \A c \in Callers :
        ( /\ Done(c) /\ InAdvance(c)
          /\ ProjectOf(c) \in Projects
          /\ ~HasNextEntry(c) )
        => /\ projects[ProjectOf(c)].status = "COMPLETED"
           /\ Ret(c).kind = "return" /\ Ret(c).success
           /\ phases = Pre(c).phases
           /\ Len(gates) = Len(Pre(c).gates)
           /\ \A g \in 1..Len(gates) :
                (call[c].op = "advance" \/ g /= call[c].gate_id) => gates[g] = Pre(c).gates[g]
           /\ executions = Pre(c).executions
           /\ call[c].sends = 0
           /\ Pre(c).projects[ProjectOf(c)].status = "COMPLETED"
                => projects = Pre(c).projects

\* C8 witness: advance was repeated on a project already Completed.
C8_Witness ==
    \E c \in Callers :
        /\ Done(c) /\ call[c].op = "advance" /\ call[c].project_id \in Projects
        /\ ~HasNextEntry(c)
        /\ Pre(c).projects[call[c].project_id].status = "COMPLETED"

\* ------------------------------------------------------------------- C9
\* C9 (as claimed): advance and resolve end by returning, never by raising:
\* advance on an unknown project returns (false, "Project not found"), resolve
\* on an unknown gate returns (false, "Approval gate not found"), resolve on a
\* gate that is not Pending returns (false, "Gate already ..."), and in each
\* case nothing is created or changed.
C9_NoRaiseOnExpectedFailure ==
    \A c \in Callers :
        (Done(c) /\ call[c].op \in {"advance", "resolve"}) =>
          /\ Ret(c).kind = "return"
          /\ (call[c].op = "advance" /\ call[c].project_id \notin Projects) =>
               /\ ~Ret(c).success /\ Ret(c).message = <<"Project not found">>
               /\ Snapshot = Pre(c) /\ call[c].sends = 0
          /\ (call[c].op = "resolve" /\ call[c].gate_id \notin 1..Len(Pre(c).gates)) =>
               /\ ~Ret(c).success /\ Ret(c).message = <<"Approval gate not found">>
               /\ Snapshot = Pre(c) /\ call[c].sends = 0
          /\ ( /\ call[c].op = "resolve"
               /\ call[c].gate_id \in 1..Len(Pre(c).gates)
               /\ Pre(c).gates[call[c].gate_id].status /= "PENDING" ) =>
               /\ ~Ret(c).success
               /\ Contains(Ret(c).message, <<"Gate already ">>)
               /\ Snapshot = Pre(c) /\ call[c].sends = 0

\* ------------------------------------------------------------------ C10
\* One step of the executions table: rows are only appended, and appended
\* Queued; a Queued row stays or becomes Running; a Running row stays or becomes
\* Completed (with output) or Failed (with an error); a Completed or Failed row
\* is not changed; nothing but status, output, error and completion time of a
\* row changes.
ExecutionStep ==
    /\ Len(executions') >= Len(executions)
    /\ \A i \in (Len(executions) + 1)..Len(executions') :
         executions'[i].status = "QUEUED"
    /\ \A i \in 1..Len(executions) :
         LET old == executions[i]
             new == executions'[i]
         IN  \/ new = old
             \/ /\ old.status = "QUEUED"
                /\ new = [old EXCEPT !.status = "RUNNING"]
             \/ /\ old.status = "RUNNING"
                /\ new.status = "COMPLETED" /\ ~IsNone(new.output)
                /\ new = [old EXCEPT !.status = "COMPLETED", !.output = new.output,
                                     !.completed_at = new.completed_at]
             \/ /\ old.status = "RUNNING"
                /\ new.status = "FAILED" /\ ~IsNone(new.error)
                /\ new = [old EXCEPT !.status = "FAILED", !.error = new.error,
                                     !.completed_at = new.completed_at]

\* A call issues a request only while its execution row is Running.
SendsWhileRunning ==
    \A c \in Callers :
        call'[c].sends > call[c].sends =>
          /\ ~IsNone(call[c].exec_id)
          /\ executions[Get(call[c].exec_id)].status = "RUNNING"
          /\ executions' = executions

\* C10: an execution row is created Queued before any message of its command
\* is sent, is then set Running, and is set at most once to Completed or
\* Failed; it never goes back to Queued or Running, and a Completed or Failed
\* row is never changed.
C10_ExecutionLifecycle ==
    /\ [][ExecutionStep /\ SendsWhileRunning]_vars
    /\ [](\A c \in Callers :
            (~IsNone(call[c].exec_id) /\ executions[Get(call[c].exec_id)].status = "QUEUED")
              => call[c].sends = 0)

\* C10 witness: one row ended Completed and another Failed.
C10_Witness ==
    \E i, j \in 1..Len(executions) :
        /\ executions[i].status = "COMPLETED"
        /\ executions[j].status = "FAILED"
        /\ i < j

\* ------------------------------------------------------------------ C11
\* previousCount and stableStreak after a sequence of polled counts, as the
\* completion heuristic is described: both start at 0; a count above
\* previousCount resets the streak and becomes previousCount, any other count
\* adds 1 to the streak.
RECURSIVE Tally(_)
Tally(counts) ==
    IF counts = <<>> THEN [previous |-> 0, streak |-> 0]
    ELSE LET before == Tally(SubSeq(counts, 1, Len(counts) - 1))
             count == counts[Len(counts)]
         IN  IF count > before.previous
             THEN [previous |-> count, streak |-> 0]
             ELSE [previous |-> before.previous, streak |-> before.streak + 1]

\* A call inside wait_for_completion, or just back from it.
Polling(c) == call[c].pc \in {"poll_check", "poll_sleep", "exec_complete"}

\* C11: the counters of wait_for_completion are those of the heuristic applied
\* to the counts polled so far (0 and 0 before the first poll); the wait
\* returns at the first poll at which the streak is 2, never earlier, with the
\* messages of that poll; counts 1, 1, 1 end it at the 3rd poll and counts
\* 0, 0 at the 2nd.
C11_QuiescenceAfterTwoStablePolls ==
    \A c \in Callers :
        Polling(c) =>
          /\ call[c].previous_message_count = Tally(call[c].polled).previous
          /\ call[c].stable_count = Tally(call[c].polled).streak
          /\ \A k \in 0..(Len(call[c].polled) - 1) :
               Tally(SubSeq(call[c].polled, 1, k)).streak < 2
          /\ (call[c].pc = "exec_complete") <=> (Tally(call[c].polled).streak = 2)
          /\ call[c].pc = "exec_complete" =>
               Len(call[c].messages) = call[c].polled[Len(call[c].polled)]
          /\ call[c].polled \in {<<1, 1>>, <<0>>} => call[c].pc /= "exec_complete"
          /\ call[c].polled \in {<<1, 1, 1>>, <<0, 0>>} => call[c].pc = "exec_complete"

\* C11 witness: a wait has returned at its third poll, having seen 1, 1, 1.
C11_Witness ==
    \E c \in Callers : call[c].pc = "exec_complete" /\ call[c].polled = <<1, 1, 1>>

\* ------------------------------------------------------------------ C12
\* One iteration of the polling loop was run by call c in this step.
Iterates(c) ==
    /\ call[c].pc = "poll_check"
    /\ call'[c].pc \in {"poll_sleep", "exec_complete", "exec_except"}

RaisesTimeout(c) ==
    /\ call'[c].pc = "exec_except"
    /\ Get(call'[c].exc).type = "TimeoutError"

StrictlyIncreasing(counts) ==
    /\ counts /= <<>>
    /\ counts[1] > 0
    /\ \A k \in 1..(Len(counts) - 1) : counts[k] < counts[k + 1]

\* C12: an iteration of the polling loop raises TimeoutError exactly when the
\* time elapsed since the wait began is at least the timeout (so the first
\* such iteration raises, and no iteration with less elapsed time does); and a
\* wait whose polls have each seen more messages than the one before has not
\* reported completion.
C12_TimeoutAtDeadline ==
    /\ [][\A c \in Callers :
            Iterates(c) =>
              ((call[c].now - call[c].poll_start >= ScarTimeoutSeconds) <=> RaisesTimeout(c))]_vars
    /\ [](\A c \in Callers :
            StrictlyIncreasing(call[c].polled) => call[c].pc /= "exec_complete")

\* C12 witness: a wait whose three polls saw 1, 2, 3 messages has timed out.
C12_Witness ==
    \E c \in Callers :
        /\ call[c].pc = "exec_except"
        /\ Get(call[c].exc).type = "TimeoutError"
        /\ call[c].polled = <<1, 2, 3>>

\* ------------------------------------------------------------------ C13
\* An execute call that ended otherwise than by cancellation.
Cancelled(c) == Done(c) /\ Ret(c).kind = "raise" /\ Ret(c).type = "CancelledError"

\* C13: a polling call never sleeps or completes at or past its deadline; an
\* execute call that ends without being cancelled returns a result; and, the
\* steps of a call being taken as long as it runs, every execute call ends.
C13_ExecuteTerminates ==
    /\ [](\A c \in Callers :
            call[c].pc \in {"poll_sleep", "exec_complete"} =>
              call[c].now - call[c].poll_start < ScarTimeoutSeconds)
    /\ [](\A c \in Callers :
            (Done(c) /\ call[c].op = "execute" /\ ~Cancelled(c)) =>
              (Ret(c).kind = "return" /\ ~IsNone(call[c].result)))
    /\ \A c \in {1} :
         (call[c].op = "execute" /\ call[c].pc /= "done") ~> (call[c].pc = "done")

\* C13 witness: an execute whose polling ran into the deadline has returned
\* its failure.
C13_Witness ==
    \E c \in Callers :
        /\ Done(c) /\ call[c].op = "execute" /\ Ret(c).kind = "return"
        /\ ~Get(call[c].result).success
        /\ Get(call[c].result).duration_seconds >= ScarTimeoutSeconds
        /\ call[c].sends = 2

\* ------------------------------------------------------------------ C14
\* The text that identifies the class of an error.
ErrorClass(type) ==
    IF type = "ConnectError" THEN "SCAR is not available. Ensure SCAR is running at "
    ELSE IF type = "TimeoutError" THEN "SCAR command timed out after "
    ELSE "SCAR command failed: "

\* The row an execute call created.
RowOf(c) == Len(Pre(c).executions) + 1

\* C14: the step that handles an exception of execute ends the call with a
\* returned failure: success = false, empty output, the row Failed, and an
\* error text, the same in the row and in the result, that begins with the
\* text of the exception's class; the three class texts differ; and an execute
\* call that created its row ends by raising only when it was cancelled.
C14_ErrorsBecomeFailures ==
    /\ [][\A c \in Callers :
            (call[c].pc = "exec_except" /\ call'[c].pc /= "exec_except") =>
              LET result == Get(call'[c].result)
                  row == executions'[Get(call[c].exec_id)]
              IN  /\ ~IsNone(call'[c].result)
                  /\ ~result.success /\ result.output = <<>>
                  /\ ~IsNone(result.error)
                  /\ Get(result.error)[1] = ErrorClass(Get(call[c].exc).type)
                  /\ row.status = "FAILED" /\ row.error = result.error
                  /\ call[c].op = "execute" =>
                       (Done(c)' /\ Ret(c)'.kind = "return" /\ ~Ret(c)'.success)]_vars
    /\ [](\A c \in Callers :
            (Done(c) /\ call[c].op = "execute" /\ Ret(c).kind = "raise") => Cancelled(c))
    /\ [](Cardinality({ErrorClass(type) : type \in HttpOutcomes \cup {"TimeoutError"}}) = 3)

\* C14 witness: an execute whose second request met a connect error has
\* returned, its row Failed.
C14_Witness ==
    \E c \in Callers :
        /\ Done(c) /\ call[c].op = "execute" /\ call[c].sends = 2
        /\ Len(executions) = RowOf(c)
        /\ executions[RowOf(c)].status = "FAILED"
        /\ Get(executions[RowOf(c)].error)[1] = ErrorClass("ConnectError")
        /\ Ret(c).kind = "return" /\ ~Ret(c).success

\* ------------------------------------------------------------------ C15
\* The echoes of a conversation: what the runtime received, in order.
Received(log) == SelectSeq(log, LAMBDA m : m.direction = "received")
IsWorkspaceSwitch(m) == m.message[1] = "/repo "
IsCommand(m) == m.message[1] = "/command-invoke "

\* C15: the runtime receives a command only right after the workspace switch
\* of the same call was answered: a call sends its command as its second
\* request, and polls only after two requests; a call whose workspace switch
\* failed has sent one request, has not polled, leaves the log as it was, and
\* ends with its row Failed.
C15_WorkspaceBeforeCommand ==
    /\ [](\A cv \in Conversations :
            LET received == Received(scarLog[cv])
            IN  \A k \in 1..Len(received) :
                  IsCommand(received[k]) => (k > 1 /\ IsWorkspaceSwitch(received[k - 1])))
    /\ [](\A c \in Callers :
            /\ call[c].pc = "exec_workspace" => call[c].sends = 0
            /\ call[c].pc = "exec_send" => call[c].sends = 1
            /\ call[c].pc \in {"poll_check", "poll_sleep", "exec_complete"} => call[c].sends = 2
            /\ (call[c].pc = "exec_except" /\ call[c].sends = 1) => call[c].polled = <<>>
            /\ (Done(c) /\ call[c].op = "execute" /\ call[c].sends = 1 /\ ~Cancelled(c)) =>
                 /\ ~Get(call[c].result).success
                 /\ executions[RowOf(c)].status = "FAILED")
    /\ [][\A c \in Callers :
            (call[c].pc = "exec_workspace" /\ call'[c].pc = "exec_except") =>
              (scarLog' = scarLog /\ call'[c].sends = 1)]_vars
    /\ [][\A c \in Callers :
            (call[c].pc = "exec_except" /\ call[c].sends = 1) =>
              (scarLog' = scarLog /\ call'[c].sends = 1 /\ call'[c].polled = <<>>)]_vars

\* C15 witness: an execute whose workspace switch failed has ended.
C15_Witness ==
    \E c \in Callers :
        /\ Done(c) /\ call[c].op = "execute" /\ call[c].sends = 1 /\ ~Cancelled(c)
        /\ executions[RowOf(c)].status = "FAILED"

\* ------------------------------------------------------------------ C16
\* The runtime's own messages of a log, in log order.
RECURSIVE SentOf(_)
SentOf(log) ==
    IF log = <<>> THEN <<>>
    ELSE IF log[1].direction = "sent" THEN <<log[1]>> \o SentOf(Tail(log))
    ELSE SentOf(Tail(log))

\* The texts of messages, one per line.
RECURSIVE Lines(_)
Lines(msgs) ==
    IF msgs = <<>> THEN <<>>
    ELSE IF Len(msgs) = 1 THEN msgs[1].message
    ELSE msgs[1].message \o <<"\n">> \o Lines(Tail(msgs))

\* C16: a poll returns the log's messages with direction "sent", in log
\* order, and counts only those; the output of a Completed execution, in its
\* row and in its result, is the newline-join of the messages of the final
\* poll, so no echo ("received") is part of it.
C16_OutputIsSentMessages ==
    /\ [][\A c \in Callers :
            (Iterates(c) /\ call'[c].pc /= "exec_except") =>
              LET sent == SentOf(scarLog[Get(call[c].conversation_id)])
              IN  /\ call'[c].messages = sent
                  /\ call'[c].polled = Append(call[c].polled, Len(sent))]_vars
    /\ [][\A c \in Callers :
            (call[c].pc = "exec_complete" /\ call'[c].pc /= "exec_complete") =>
              LET row == executions'[Get(call[c].exec_id)]
                  result == Get(call'[c].result)
              IN  /\ row.status = "COMPLETED"
                  /\ row.output = Some(Lines(call[c].messages))
                  /\ result.success /\ result.output = Lines(call[c].messages)
                  /\ \A k \in 1..Len(call[c].messages) :
                       call[c].messages[k].direction = "sent"]_vars

\* C16 witness: an execution Completed with two messages in its output while
\* the log holds echoes as well.
C16_Witness ==
    \E i \in 1..Len(executions) :
        /\ executions[i].status = "COMPLETED"
        /\ executions[i].output =
             Some(RuntimeMessage(1) \o <<"\n">> \o RuntimeMessage(2))
        /\ \E cv \in Conversations : Len(Received(scarLog[cv])) >= 2

\* ------------------------------------------------------------------ C17
\* No running call owns row i.
Orphan(i) == \A c \in Callers : call[c].pc \in {"idle", "done"} \/ call[c].exec_id /= Some(i)

\* C17: a cancelled execute leaves its row Running; a cancellation never
\* reaches the exception handling that ends a row; a Running row no running
\* call owns is never changed (so never Completed); and while no call runs no
\* request reaches the runtime: the log stays as it is.
C17_CancelLeavesRunning ==
    /\ [](\A c \in Callers :
            (Cancelled(c) /\ call[c].op = "execute") =>
              executions[RowOf(c)].status = "RUNNING")
    /\ [](\A c \in Callers :
            call[c].pc = "exec_except" => Get(call[c].exc).type /= "CancelledError")
    /\ [][\A i \in 1..Len(executions) :
            (executions[i].status = "RUNNING" /\ Orphan(i)) =>
              executions'[i] = executions[i]]_vars
    /\ [][(\A c \in Callers : call[c].pc \in {"idle", "done"}) =>
            scarLog' = scarLog]_vars

\* C17 witness: a call cancelled after both of its requests has ended, and
\* the runtime has emitted a message to it.
C17_Witness ==
    \E c \in Callers :
        /\ Cancelled(c) /\ call[c].op = "execute" /\ call[c].sends = 2
        /\ executions[RowOf(c)].status = "RUNNING"
        /\ \E cv \in Conversations : SentOf(scarLog[cv]) /= <<>>

\* The topics of a project, by id.
TopicsOf(p) == {t \in 1..Len(topics) : topics[t].project_id = p}
FlaggedActive(p) == {t \in TopicsOf(p) : topics[t].is_active}
LatestCreated(p) == CHOOSE t \in TopicsOf(p) : \A u \in TopicsOf(p) : u <= t

\* C18: with recordMessage, startNewTopic and reset calls run one after the
\* other, a project never has more than one active topic; once it has a topic,
\* exactly the most recently created one is active and every other topic has
\* its ended_at set.
C18_OneActiveTopic ==
    \A p \in Projects :
        /\ Cardinality(FlaggedActive(p)) <= 1
        /\ TopicsOf(p) /= {} =>
             /\ FlaggedActive(p) = {LatestCreated(p)}
             /\ \A t \in TopicsOf(p) \ {LatestCreated(p)} : ~IsNone(topics[t].ended_at)

\* A call that replaced the active topic of a project has completed.
C18_Witness ==
    \E c \in Callers :
        /\ Done(c)
        /\ call[c].op \in {"record", "reset", "new_topic"}
        /\ Len(call[c].tpre.topics) >= 1
        /\ Len(topics) = Len(call[c].tpre.topics) + 1
        /\ call[c].tpre.topics[Len(topics) - 1].is_active
        /\ ~topics[Len(topics) - 1].is_active
        /\ topics[Len(topics)].is_active

\* Among the topics of a project flagged active, the one started last.
LatestActive(p) ==
    CHOOSE t \in FlaggedActive(p) :
        \A u \in FlaggedActive(p) : topics[u].started_at <= topics[t].started_at
SeveralActive(p) == Cardinality(FlaggedActive(p)) > 1
MessagesOfTopic(p, t) ==
    {m \in 1..Len(conversation) :
        conversation[m].project_id = p /\ conversation[m].topic_id = Some(t)}
ActiveHistory(p) == History(p, HistoryLimit, TRUE)

\* C19: while several topics of a project are flagged active, activeTopic is
\* the flagged topic with the latest started_at, the history of the active
\* topic holds the messages of that topic and no others, and a message that is
\* attached to the active topic is attached to that topic; a topic that is not
\* flagged active is never returned as the active one.
C19_LatestActiveIsAuthoritative ==
    /\ [](\A p \in Projects :
            SeveralActive(p) =>
              /\ ActiveTopic(topics, p) = Some(LatestActive(p))
              /\ \A i \in 1..Len(ActiveHistory(p)) :
                    ActiveHistory(p)[i].topic_id = Some(LatestActive(p))
              /\ Cardinality(MessagesOfTopic(p, LatestActive(p))) <= HistoryLimit =>
                    Len(ActiveHistory(p)) = Cardinality(MessagesOfTopic(p, LatestActive(p))))
    /\ [](\A p \in Projects :
            ~IsNone(ActiveTopic(topics, p)) => topics[Get(ActiveTopic(topics, p))].is_active)
    /\ [][\A c \in Callers :
            /\ call[c].pc \in {"attach_active", "attach_assistant"}
            /\ call'[c].pc = "commit"
            /\ SeveralActive(call[c].project_id)
            => call'[c].topic_id = Some(LatestActive(call[c].project_id))]_vars
    /\ [][\A c \in Callers :
            /\ call[c].pc = "commit"
            /\ call'[c].pc = "done"
            /\ call[c].op = "record"
            /\ IsNone(call[c].new_topic)
            => conversation'[Len(conversation')].topic_id = call[c].topic_id]_vars

\* A message was recorded from start to end while two topics were active, and
\* is in the history of the one started last.
C19_Witness ==
    \E c \in Callers :
        /\ Done(c)
        /\ call[c].op = "record"
        /\ IsNone(call[c].new_topic)
        /\ call[c].tpre.topics = topics
        /\ SeveralActive(call[c].project_id)
        /\ call[c].topic_id = Some(LatestActive(call[c].project_id))
        /\ Len(ActiveHistory(call[c].project_id)) >= 1

\* The ten boundary phrases of the conversation contract.
BoundaryPhrases ==
    {<<"b", "u", "t", " ", "w", "e", " ", "w", "e", "r", "e", "n", "'", "t", " ", "d", "i", "s", "c", "u", "s", "s", "i", "n", "g">>,
     <<"b", "u", "t", " ", "w", "e", " ", "w", "e", "r", "e", "n", "t", " ", "d", "i", "s", "c", "u", "s", "s", "i", "n", "g">>,
     <<"w", "e", " ", "w", "e", "r", "e", " ", "t", "a", "l", "k", "i", "n", "g", " ", "a", "b", "o", "u", "t">>,
     <<"n", "o", "t", " ", "a", "b", "o", "u", "t", " ", "t", "h", "a", "t">>,
     <<"d", "i", "f", "f", "e", "r", "e", "n", "t", " ", "t", "o", "p", "i", "c">>,
     <<"l", "e", "t", "'", "s", " ", "d", "i", "s", "c", "u", "s", "s">>,
     <<"l", "e", "t", "s", " ", "d", "i", "s", "c", "u", "s", "s">>,
     <<"s", "w", "i", "t", "c", "h", "i", "n", "g", " ", "t", "o", "p", "i", "c", "s">>,
     <<"n", "e", "w", " ", "t", "o", "p", "i", "c">>,
     <<"b", "a", "c", "k", " ", "t", "o">>}
HasBoundaryPhrase(text) == \E phrase \in BoundaryPhrases : Contains(Lower(text), phrase)

\* C20: the decision to switch topics is true for a user message that contains
\* one of the ten boundary phrases in any case, whatever the time elapsed; with
\* no phrase it is true exactly when the time since the last message of the
\* active topic is more than 3600 seconds.
C20_ShouldSwitch ==
    \A c \in Callers :
        (Done(c) /\ call[c].op = "record" /\ call[c].role = "USER") =>
            /\ HasBoundaryPhrase(call[c].content) => call[c].should = Some(TRUE)
            /\ (~HasBoundaryPhrase(call[c].content) /\ ~IsNone(call[c].time_gap)) =>
                  call[c].should = Some(Get(call[c].time_gap) > 3600)

\* A completed recording of a user message, the tables it started from, and
\* the message it stored.
RecordedUser(c) == Done(c) /\ call[c].op = "record" /\ call[c].role = "USER"
Before(c) == call[c].tpre
Stored(c) == conversation[Len(Before(c).conversation) + 1]
ExamplePhrases ==
    {<<"l", "e", "t", "'", "s", " ", "d", "i", "s", "c", "u", "s", "s">>,
     <<"n", "e", "w", " ", "t", "o", "p", "i", "c">>,
     <<"s", "w", "i", "t", "c", "h", "i", "n", "g", " ", "t", "o">>}

\* C21: a user message with one of the phrases is a switch; the message of a
\* switch is attached to a topic the call created, which no earlier topic or
\* message of the project has, the topic active before is ended and inactive,
\* and the new topic is the active one.  A user message that is no switch is
\* attached to the active topic, which is the one active before when there
\* was one, and then no topic changes.
C21_SwitchCreatesTopic ==
    \A c \in Callers :
        RecordedUser(c) =>
          LET p == call[c].project_id
              t == Get(call[c].topic_id)
          IN  /\ (\E phrase \in ExamplePhrases : Contains(Lower(call[c].content), phrase))
                    => call[c].should = Some(TRUE)
              /\ call[c].should = Some(TRUE) =>
                    /\ ~IsNone(call[c].topic_id)
                    /\ t \in TopicsOf(p) \ (1..Len(Before(c).topics))
                    /\ Stored(c).topic_id = Some(t)
                    /\ \A m \in 1..Len(Before(c).conversation) :
                          conversation[m].topic_id /= Some(t)
                    /\ \A u \in ActiveTopicIds(Before(c).topics, p) :
                          ~topics[u].is_active /\ ~IsNone(topics[u].ended_at)
                    /\ FlaggedActive(p) = {t}
              /\ call[c].should = Some(FALSE) =>
                    /\ ~IsNone(call[c].topic_id)
                    /\ Stored(c).topic_id = Some(t)
                    /\ FlaggedActive(p) = {t}
                    /\ ActiveTopicIds(Before(c).topics, p) /= {} =>
                          /\ t \in ActiveTopicIds(Before(c).topics, p)
                          /\ topics = Before(c).topics

\* A second switch has completed: its message is in a new topic, the message
\* of the first switch in the topic that was ended.
C21_Witness ==
    \E c \in Callers :
        /\ RecordedUser(c)
        /\ call[c].should = Some(TRUE)
        /\ Len(Before(c).conversation) >= 1
        /\ ActiveTopicIds(Before(c).topics, call[c].project_id) /= {}
        /\ Before(c).conversation[1].role = "USER"
        /\ Before(c).conversation[1].topic_id /= call[c].topic_id
        /\ HasSwitchPhrase(Before(c).conversation[1].content)

\* A completed recording of an assistant message.
RecordedAssistant(c) == Done(c) /\ call[c].op = "record" /\ call[c].role = "ASSISTANT"

\* C22: recording an assistant message, whatever its text and whatever the
\* time since the last message, leaves the topics table as it was, in each of
\* its steps and at its end, and attaches the message to the topic that is
\* active at that moment.
C22_AssistantNeverSwitches ==
    /\ [](\A c \in Callers :
            RecordedAssistant(c) =>
              /\ topics = Before(c).topics
              /\ Stored(c).topic_id = ActiveTopic(Before(c).topics, call[c].project_id)
              /\ Stored(c).role = "ASSISTANT"
              /\ Stored(c).content = call[c].content)
    /\ [][\A c \in Callers :
            (call[c].op = "record" /\ call[c].role = "ASSISTANT") => topics' = topics]_vars

\* An assistant message with a boundary phrase was recorded more than the gap
\* after the last message of the active topic.
C22_Witness ==
    \E c \in Callers :
        /\ RecordedAssistant(c)
        /\ HasBoundaryPhrase(call[c].content)
        /\ Len(Before(c).conversation) >= 1
        /\ Before(c).conversation[1].topic_id = Stored(c).topic_id
        /\ ~IsNone(Stored(c).topic_id)
        /\ Stored(c).timestamp - Before(c).conversation[1].timestamp > 3600
        /\ Len(conversation) = 2

\* A completed startNewTopic or conversation reset.
StartedTopic(c) ==
    Done(c) /\ call[c].op \in {"new_topic", "reset"} /\ Ret(c).kind = "return"

\* C23: the history of the active topic holds only messages whose topic is the
\* one activeTopic returns; right after startNewTopic it holds no message of
\* the topic that was ended; with no active topic it is empty.
C23_ActiveHistoryIsolated ==
    \A p \in Projects :
        /\ \A i \in 1..Len(ActiveHistory(p)) :
              /\ ActiveHistory(p)[i].topic_id = ActiveTopic(topics, p)
              /\ ActiveHistory(p)[i].topic_id \in {Some(t) : t \in FlaggedActive(p)}
        /\ FlaggedActive(p) = {} => ActiveHistory(p) = <<>>
        /\ \A c \in Callers :
              (StartedTopic(c) /\ call[c].project_id = p) =>
                 \A i \in 1..Len(ActiveHistory(p)) :
                    \A u \in ActiveTopicIds(Before(c).topics, p) :
                       ActiveHistory(p)[i].topic_id /= Some(u)

\* startNewTopic has just ended a topic that has a message.
C23_Witness ==
    \E c \in Callers :
        /\ StartedTopic(c)
        /\ \E u \in ActiveTopicIds(Before(c).topics, call[c].project_id) :
              MessagesOfTopic(call[c].project_id, u) /= {}
        /\ ActiveHistory(call[c].project_id) = <<>>
        /\ FlaggedActive(call[c].project_id) /= {}

FullHistory(p) == History(p, HistoryLimit, FALSE)

\* C24: no step changes or removes a stored message; after a reset the history
\* of the whole project still has every earlier message, with the topic id,
\* content, role and timestamp it was stored with.
C24_MessagesImmutable ==
    /\ [][/\ Len(conversation') >= Len(conversation)
          /\ \A m \in 1..Len(conversation) : conversation'[m] = conversation[m]]_vars
    /\ [](\A c \in Callers :
            (StartedTopic(c) /\ call[c].op = "reset") =>
               \A m \in 1..Len(Before(c).conversation) :
                  \E i \in 1..Len(FullHistory(call[c].project_id)) :
                     FullHistory(call[c].project_id)[i] = Before(c).conversation[m])

\* A reset has completed on a project whose active topic had a message.
C24_Witness ==
    \E c \in Callers :
        /\ StartedTopic(c)
        /\ call[c].op = "reset"
        /\ Len(Before(c).conversation) >= 1
        /\ \E u \in ActiveTopicIds(Before(c).topics, call[c].project_id) :
              /\ conversation[1].topic_id = Some(u)
              /\ ~topics[u].is_active
        /\ Len(FullHistory(call[c].project_id)) = Len(conversation)

\* C25: the message a completed recording stored has a topic id, whatever the
\* role and whether or not the project had an active topic.
C25_MessageHasTopic ==
    \A c \in Callers :
        (Done(c) /\ call[c].op = "record") =>
            /\ ~IsNone(call[c].topic_id)
            /\ ~IsNone(Stored(c).topic_id)

\* No call is between its first step and its commit.
Quiet == \A c \in Callers : call[c].pc \in {"idle", "done"}

\* C29: once interleaved startNewTopic or switching recordings have all
\* completed, the project has exactly one active topic; and a startNewTopic
\* that started when two topics were active, and ran alone, leaves exactly one.
C29_RaceLeavesOneActive ==
    /\ \A p \in Projects :
          (Quiet /\ TopicsOf(p) /= {}) => Cardinality(FlaggedActive(p)) = 1
    /\ \A c \in Callers :
          (/\ Quiet
           /\ Done(c)
           /\ call[c].op = "new_topic"
           /\ Cardinality(ActiveTopicIds(Before(c).topics, call[c].project_id)) > 1
           /\ Len(topics) = Len(Before(c).topics) + 1)
          => Cardinality(FlaggedActive(call[c].project_id)) = 1

\* The commands of the pipeline entries that require approval.
GatedCommands ==
    {Get(WORKFLOW_PHASES[k].scar_command) :
        k \in {j \in 1..Len(WORKFLOW_PHASES) :
                 /\ WORKFLOW_PHASES[j].requires_approval
                 /\ ~IsNone(WORKFLOW_PHASES[j].scar_command)}}
BlockedIn(table) == {i \in 1..Len(table) : table[i].status = "BLOCKED"}

LatestIn(table, p) ==
    {i \in 1..Len(table) :
        table[i].project_id = p /\ table[i].phase_number = HighestIn(table, p)}
FailedIn(table) == {i \in 1..Len(table) : table[i].status = "FAILED"}
ExecutionsOf(table, i) == {e \in 1..Len(table) : table[e].phase_id = Some(i)}

\* An advance that began when the latest phase of its project was Failed.
AdvancesAfterFailure(c) ==
    /\ InAdvance(c)
    /\ ProjectOf(c) \in Projects
    /\ LatestIn(Pre(c).phases, ProjectOf(c)) /= {}
    /\ LatestIn(Pre(c).phases, ProjectOf(c)) \subseteq FailedIn(Pre(c).phases)

\* C30: no step changes a phase that is Failed or runs a command for it; an
\* advance that begins when the latest phase is Failed creates one phase, with
\* the next higher number, or completes the project when the pipeline has no
\* such entry.
C30_FailedPhaseNotRetried ==
    /\ [][/\ \A i \in FailedIn(phases) : phases'[i] = phases[i]
          /\ \A i \in FailedIn(phases) :
                ExecutionsOf(executions', i) = ExecutionsOf(executions, i)]_vars
    /\ [](\A c \in Callers :
            (Done(c) /\ AdvancesAfterFailure(c)) =>
               IF HasNextEntry(c)
               THEN /\ Len(phases) = Len(Pre(c).phases) + 1
                    /\ phases[Len(phases)].project_id = ProjectOf(c)
                    /\ phases[Len(phases)].phase_number = NextNumber(c)
                    /\ phases[Len(phases)].phase_number
                         > HighestIn(Pre(c).phases, ProjectOf(c))
               ELSE /\ phases = Pre(c).phases
                    /\ projects[ProjectOf(c)].status = "COMPLETED")

\* An advance that followed a Failed phase has ended.
C30_Witness ==
    \E c \in Callers :
        /\ Done(c)
        /\ call[c].op = "advance"
        /\ AdvancesAfterFailure(c)
        /\ Len(phases) = Len(Pre(c).phases) + 1
        /\ phases[Len(Pre(c).phases)].status = "FAILED"
        /\ ~IsNone(phases[Len(Pre(c).phases)].error_message)

\* A call whose command was sent to a conversation and has not completed.
InFlight(c) == call[c].pc \in {"poll_check", "poll_sleep", "exec_complete"}

\* No two phases of a project have the same number.
NoDuplicatePhaseNumber ==
    \A i \in 1..Len(phases) : \A j \in 1..Len(phases) :
        (i /= j /\ phases[i].project_id = phases[j].project_id)
            => phases[i].phase_number /= phases[j].phase_number

\* No two calls have a command in flight on the same conversation.
NoTwoCommandsInFlight ==
    \A c \in Callers : \A d \in Callers :
        (c /= d /\ InFlight(c) /\ InFlight(d))
            => call[c].conversation_id /= call[d].conversation_id

\* C26: calls of one project that run at the same time exclude each other:
\* they never create two phases with one number and never have two commands in
\* flight on the conversation of the project.
C26_CallsExcludeEachOther == NoDuplicatePhaseNumber /\ NoTwoCommandsInFlight

\* C28: of the resolve calls on one gate that run at the same time, at most
\* one resolves it: no two of them have written the status of the gate and
\* gone on, one to the advance of the approval or to the rejection's return.
C28_GateResolvedOnce ==
    \A c \in Callers : \A d \in Callers :
        (c /= d /\ call[c].op = "resolve" /\ call[d].op = "resolve"
              /\ call[c].gate_id = call[d].gate_id)
            => ~(~IsNone(call[c].gate) /\ ~IsNone(call[d].gate))

\* ------------------------------------------------------------------ C34
\* A resolve with approved = true on a Pending gate whose chained advance
\* did not succeed.
ApprovalFailedDownstream(c) ==
    /\ Done(c) /\ ResolvesPending(c) /\ call[c].approved
    /\ Ret(c).kind = "return" /\ ~Ret(c).success

\* C34: when resolve with approved = true returns success = false because the
\* chained advance failed, the gate is still Approved, the gate object keeps
\* the notes, the gate is no longer resolvable, and the call did run advance:
\* nothing put the gate back to Pending.
C34_ApprovalNotRolledBack ==
    \A c \in Callers :
        ApprovalFailedDownstream(c) =>
          /\ call[c].nested
          /\ gates[call[c].gate_id].status = "APPROVED"
          /\ ~GateResolvable(gates[call[c].gate_id])
          /\ ~IsNone(call[c].gate)
          /\ Get(call[c].gate).status = "APPROVED"
          /\ Get(call[c].gate).approver_notes =
               (IF Truthy(call[c].notes) THEN call[c].notes ELSE None)
          /\ \A g \in 1..Len(Pre(c).gates) :
               g /= call[c].gate_id => gates[g] = Pre(c).gates[g]

\* C34 witness: an approval with notes whose command phase failed.
C34_Witness ==
    \E c \in Callers :
        /\ ApprovalFailedDownstream(c)
        /\ Truthy(call[c].notes)
        /\ Len(phases) = Len(Pre(c).phases) + 1
        /\ phases[Len(phases)].status = "FAILED"

\* ------------------------------------------------------------------ C35
\* The status of every gate is one of the three the code writes.
GateStatusWritten ==
    \A g \in 1..Len(gates) : gates[g].status \in {"PENDING", "APPROVED", "REJECTED"}

\* A step changes the status of a gate only from Pending, to Approved or to
\* Rejected, and no gate row disappears.
GateStatusStep ==
    /\ Len(gates') >= Len(gates)
    /\ \A g \in 1..Len(gates) :
         gates'[g].status /= gates[g].status =>
           /\ gates[g].status = "PENDING"
           /\ gates'[g].status \in {"APPROVED", "REJECTED"}

\* C35: in every reachable state each gate is Pending, Approved or Rejected,
\* never Expired; a gate's status changes only from Pending to Approved or
\* from Pending to Rejected, and an Approved or Rejected gate never changes
\* again.
C35_GateStatusMonotone == []GateStatusWritten /\ [][GateStatusStep]_vars

\* ------------------------------------------------------------------ C38
\* A step that changes a project changes only its status, to Completed; it is
\* the step of an advance (called directly or by resolve) on that project
\* whose next phase number has no pipeline entry; and it touches no phase, no
\* gate and no execution.
ProjectStatusStep ==
    \A p \in Projects :
        projects'[p] /= projects[p] =>
          /\ projects'[p] = [projects[p] EXCEPT !.status = "COMPLETED"]
          /\ EntriesNumbered(HighestIn(phases, p) + 1) = {}
          /\ \E c \in Callers : InAdvance(c) /\ ProjectOf(c) = p
                                /\ call[c].pc = "adv_create"
          /\ phases' = phases /\ gates' = gates /\ executions' = executions

\* C38: advance and resolve change a project's status only by setting it to
\* Completed when the pipeline has no next entry; every step that creates,
\* blocks, completes or fails a phase, or approves or rejects a gate, leaves
\* the projects as they were.
C38_StatusOnlyCompleted ==
    [][ /\ ProjectStatusStep
        /\ (phases' /= phases \/ gates' /= gates) => projects' = projects ]_vars

\* C38 witness: a resolve completed the project, after phases were blocked,
\* failed and completed and gates were approved and rejected.
C38_Witness ==
    \E c \in Callers :
        /\ Done(c) /\ call[c].op = "resolve" /\ call[c].nested
        /\ Pre(c).projects[ProjectOf(c)].status = "BRAINSTORMING"
        /\ projects[ProjectOf(c)].status = "COMPLETED"
        /\ \E i \in 1..Len(phases) : phases[i].status = "FAILED"
        /\ \E i \in 1..Len(phases) : phases[i].status = "COMPLETED"
        /\ \E i \in 1..Len(phases) : phases[i].status = "BLOCKED"
        /\ \E g \in 1..Len(gates) : gates[g].status = "REJECTED"

\* ------------------------------------------------------------------ C36
\* The error text of an execute that found no project or no repository URL.
NoRepoText == <<"Project not found or no GitHub repo configured">>

\* The project of a call did not exist, or had no repository URL, when the
\* call began.
LacksRepo(c) ==
    \/ ProjectOf(c) \notin DOMAIN Pre(c).projects
    \/ ~Truthy(Pre(c).projects[ProjectOf(c)].github_repo_url)

\* A call that runs execute: execute called on its own, or an advance.
RunsExecute(c) == call[c].op = "execute" \/ InAdvance(c)

\* C36: execute on a project that does not exist or has no repository URL
\* returns success = false with an error text, and from its start to its end
\* no CommandExecution row is created and nothing is sent to the remote
\* runtime; an advance that reaches it ends with the new phase Failed, the
\* phase holding that error text, and returns success = false with it.
C36_ExecuteNeedsRepository ==
    \A c \in Callers :
        (call[c].pc /= "idle" /\ RunsExecute(c) /\ LacksRepo(c)) =>
          /\ executions = Pre(c).executions
          /\ call[c].sends = 0
          /\ (Done(c) /\ call[c].op = "execute") =>
               /\ Ret(c).kind = "return" /\ ~Ret(c).success
               /\ Ret(c).message = NoRepoText
               /\ Get(call[c].result).error = Some(NoRepoText)
               /\ Get(call[c].result).output = <<>>
               /\ phases = Pre(c).phases /\ gates = Pre(c).gates
               /\ projects = Pre(c).projects
          /\ ( /\ Done(c) /\ InAdvance(c)
               /\ ProjectOf(c) \in DOMAIN Pre(c).projects
               /\ HasNextEntry(c)
               /\ ~IsNone(NextEntry(c).scar_command)
               /\ ~NextEntry(c).requires_approval )
             => /\ Len(phases) = Len(Pre(c).phases) + 1
                /\ phases[Len(phases)].phase_number = NextNumber(c)
                /\ phases[Len(phases)].status = "FAILED"
                /\ phases[Len(phases)].error_message = Some(NoRepoText)
                /\ Ret(c).kind = "return" /\ ~Ret(c).success
                /\ Contains(Ret(c).message, NoRepoText)

\* C36 witness: execute on an unknown project has failed, in a state where an
\* advance on the project without a repository left a Failed phase.
C36_Witness ==
    \E c \in Callers :
        /\ Done(c) /\ call[c].op = "execute" /\ LacksRepo(c)
        /\ call[c].project_id = UnknownProject
        /\ ~Ret(c).success
        /\ \E i \in 1..Len(phases) :
             /\ phases[i].status = "FAILED"
             /\ phases[i].error_message = Some(NoRepoText)

HistoryLimits == 0..MaxTopicRows

\* The stored messages a history request is about: those of the project, and
\* with active_topic_only those of its active topic.
Qualifying(p, active_topic_only) ==
    {m \in 1..Len(conversation) :
        /\ conversation[m].project_id = p
        /\ active_topic_only =>
             /\ ~IsNone(ActiveTopic(topics, p))
             /\ conversation[m].topic_id = ActiveTopic(topics, p)}

\* history(p, limit) is the limit earliest qualifying messages, in ascending
\* timestamp order.
EarliestFirst(p, limit, active_topic_only) ==
    LET h == History(p, limit, active_topic_only)
        q == Qualifying(p, active_topic_only)
    IN  /\ Len(h) <= limit
        /\ Len(h) = (IF Cardinality(q) < limit THEN Cardinality(q) ELSE limit)
        /\ \A i, j \in 1..Len(h) : i < j => h[i].timestamp <= h[j].timestamp
        /\ \A i \in 1..Len(h) : \E m \in q : h[i] = conversation[m]
        /\ \A m \in q :
             \/ \E i \in 1..Len(h) : h[i] = conversation[m]
             \/ /\ Len(h) = limit
                /\ \A i \in 1..Len(h) : h[i].timestamp <= conversation[m].timestamp

\* A message that was just stored, with at least limit qualifying messages
\* older than it.
StoredBeyondLimit(c, limit, active_topic_only) ==
    /\ Done(c) /\ call[c].op = "record" /\ Ret(c).kind = "return"
    /\ Len(conversation) > Len(Before(c).conversation)
    /\ Len(Before(c).conversation) + 1 \in Qualifying(call[c].project_id, active_topic_only)
    /\ Cardinality({m \in Qualifying(call[c].project_id, active_topic_only) :
                      conversation[m].timestamp < Stored(c).timestamp}) >= limit

BeginsWith(text, head) ==
    /\ Len(head) <= Len(text)
    /\ \A i \in 1..Len(head) : text[i] = head[i]

\* The Completed executions of a project.
CompletedOf(p) ==
    {e \in 1..Len(executions) :
        executions[e].project_id = p /\ executions[e].status = "COMPLETED"}

\* Every call that has a conversation id has the prefix followed by the id of
\* its project.
OneConversationPerProject ==
    \A c \in Callers :
        ~IsNone(call[c].conversation_id) =>
            call[c].conversation_id = Some(<<"pm-project-", call[c].project_id>>)

\* No step removes a message from a conversation of the remote runtime.
LogOnlyGrows == \A cv \in Conversations : BeginsWith(scarLog'[cv], scarLog[cv])

\* The first poll of an execute returns every runtime message of the
\* conversation, those of earlier executes included: its count is their
\* number, and the output of every earlier Completed execute of the project is
\* the beginning of what it returns.
FirstPollCountsEarlier ==
    \A c \in Callers :
        (Iterates(c) /\ call[c].polled = <<>> /\ call'[c].pc /= "exec_except") =>
          LET sent == SentOf(scarLog[<<"pm-project-", call[c].project_id>>])
          IN  /\ call'[c].messages = sent
              /\ call'[c].polled = <<Len(sent)>>
              /\ call'[c].previous_message_count = Len(sent)
              /\ \A e \in CompletedOf(call[c].project_id) :
                    BeginsWith(Lines(sent), Get(executions[e].output))

\* C33: execute never clears the remote conversation and every execute of a
\* project uses the conversation id made of the prefix and the project id; of
\* two Completed executes of a project the output of the later begins with the
\* output of the earlier, that is with the runtime messages that were in the
\* log already, and those messages count toward the later one's first poll.
C33_ConversationShared ==
    /\ []OneConversationPerProject
    /\ [][LogOnlyGrows /\ FirstPollCountsEarlier]_vars
    /\ [](\A p \in Projects : \A e, f \in CompletedOf(p) :
            e < f => BeginsWith(Get(executions[f].output), Get(executions[e].output)))

\* C33 witness: two Completed executes of one project, the earlier with
\* output, the later with more output that begins with it.
C33_Witness ==
    \E p \in Projects : \E e, f \in CompletedOf(p) :
        /\ e < f
        /\ Get(executions[e].output) /= <<>>
        /\ BeginsWith(Get(executions[f].output), Get(executions[e].output))
        /\ Len(Get(executions[f].output)) > Len(Get(executions[e].output))

\* ------------------------------------------------------------------ C32
\* C32: the elapsed time compared with the timeout is measured from the start
\* of the execute call, so that the time spent creating the execution row and
\* sending the two messages counts against the deadline: a poll iteration
\* raises the timeout exactly when the time since the start of the call has
\* reached the timeout.
C32_DeadlineFromCallStart ==
    [][\A c \in Callers :
          Iterates(c) =>
            ((call[c].now - call[c].start_time >= ScarTimeoutSeconds)
               <=> RaisesTimeout(c))]_vars

\* ------------------------------------------------------------------ C39
\* The phases of a project are one per pipeline entry.
OnePhasePerEntry(p) ==
    /\ Len(PhasesIn(phases, p)) = Len(WORKFLOW_PHASES)
    /\ \A k \in 1..Len(WORKFLOW_PHASES) :
         Cardinality({i \in 1..Len(phases) :
                        /\ phases[i].project_id = p
                        /\ phases[i].phase_number = WORKFLOW_PHASES[k].number}) = 1

\* C39: when the steps of every call are taken until it ends, every Pending
\* gate is approved and the caller calls advance whenever the project has no
\* Pending gate and is not Completed, every project eventually has status
\* Completed, and a Completed project has exactly one phase per pipeline entry.
C39_WorkflowCompletes ==
    /\ \A p \in Projects : <>(projects[p].status = "COMPLETED")
    /\ [](\A p \in Projects : projects[p].status = "COMPLETED" => OnePhasePerEntry(p))

\* C39 witness: the project is Completed with its phases, every gate
\* Approved and both command phases run to completion.
C39_Witness ==
    \E p \in Projects :
        /\ projects[p].status = "COMPLETED"
        /\ OnePhasePerEntry(p)
        /\ \A g \in 1..Len(gates) : gates[g].status = "APPROVED"
        /\ Cardinality({i \in 1..Len(phases) : phases[i].status = "COMPLETED"}) = 2

\* ------------------------------------------------------------------ C31
\* The pipeline entry an advance goes onto has neither approval nor command.
OntoPlainEntry(c) ==
    /\ InAdvance(c)
    /\ ProjectOf(c) \in DOMAIN Pre(c).projects
    /\ \E k \in 1..Len(pipeline) :
         /\ pipeline[k].number = NextNumber(c)
         /\ ~pipeline[k].requires_approval
         /\ IsNone(pipeline[k].scar_command)

\* What such an advance does besides the status of its phase: one phase more,
\* with the entry's number, no gate, no execution, nothing sent, success.
PlainAdvanceFrame(c) ==
    /\ Len(phases) = Len(Pre(c).phases) + 1
    /\ phases[Len(phases)].phase_number = NextNumber(c)
    /\ \A i \in 1..Len(Pre(c).phases) : phases[i] = Pre(c).phases[i]
    /\ Len(gates) = Len(Pre(c).gates)
    /\ executions = Pre(c).executions
    /\ call[c].sends = 0
    /\ Ret(c).kind = "return" /\ Ret(c).success

====
